---------------------------- MODULE Spec2Model ----------------------------
(***************************************************************************)
(* Momentum scoring engine of the crypto dashboard (lib/momentum.js) and   *)
(* the page code that calls it.                                            *)
(*                                                                         *)
(* JavaScript Numbers are IEEE-754 binary64 values.  The score is the      *)
(* result of Math.round on a chain of binary64 multiplications, one        *)
(* division, additions and a subtraction, so every arithmetic step of the  *)
(* source is modelled as the exactly rounded (round-to-nearest, ties to    *)
(* even) binary64 operation.  A binary64 value is the record               *)
(*     [neg |-> sign, man |-> significand, exp |-> exponent]               *)
(* with value (-1)^neg * man * 2^exp; man is a natural number of exactly   *)
(* 53 bits (2^52 <= man < 2^53), held as a little-endian sequence of       *)
(* 14-bit limbs because TLC integers are 32 bits wide.  Zero is the record *)
(* with the empty significand (the sign of zero is not modelled: no        *)
(* result of the engine depends on it).  NaN, the infinities and           *)
(* subnormals are outside the modelled input domain (finite percentages).  *)
(***************************************************************************)
EXTENDS Integers, Sequences, FiniteSets, TLC

-----------------------------------------------------------------------------
(* Natural numbers of arbitrary size: little-endian limbs, no high zeros.  *)

LimbBits == 14
Base == 2 ^ LimbBits

Limb(a, i) == IF i <= Len(a) THEN a[i] ELSE 0

RECURSIVE BTrim(_)
BTrim(a) ==
    IF a = <<>> THEN <<>>
    ELSE IF a[Len(a)] = 0 THEN BTrim(SubSeq(a, 1, Len(a) - 1))
    ELSE a

RECURSIVE BAddFrom(_, _, _, _)
BAddFrom(a, b, i, carry) ==
    IF i > Len(a) /\ i > Len(b)
    THEN IF carry = 0 THEN <<>> ELSE <<carry>>
    ELSE LET s == Limb(a, i) + Limb(b, i) + carry
         IN  <<s % Base>> \o BAddFrom(a, b, i + 1, s \div Base)

BAdd(a, b) == BAddFrom(a, b, 1, 0)

\* a - b for a >= b
RECURSIVE BSubFrom(_, _, _, _)
BSubFrom(a, b, i, borrow) ==
    IF i > Len(a) THEN <<>>
    ELSE LET d == Limb(a, i) - Limb(b, i) - borrow
         IN  IF d < 0
             THEN <<d + Base>> \o BSubFrom(a, b, i + 1, 1)
             ELSE <<d>> \o BSubFrom(a, b, i + 1, 0)

BSub(a, b) == BTrim(BSubFrom(a, b, 1, 0))

\* -1, 0, 1 as a < b, a = b, a > b (both trimmed)
RECURSIVE BCmpFrom(_, _, _)
BCmpFrom(a, b, i) ==
    IF i = 0 THEN 0
    ELSE IF a[i] < b[i] THEN -1
    ELSE IF a[i] > b[i] THEN 1
    ELSE BCmpFrom(a, b, i - 1)

BCmp(a, b) ==
    IF Len(a) < Len(b) THEN -1
    ELSE IF Len(a) > Len(b) THEN 1
    ELSE BCmpFrom(a, b, Len(a))

\* a * m for a small m (m < Base)
RECURSIVE BMulSmallFrom(_, _, _, _)
BMulSmallFrom(a, m, i, carry) ==
    IF i > Len(a)
    THEN IF carry = 0 THEN <<>> ELSE <<carry>>
    ELSE LET p == a[i] * m + carry
         IN  <<p % Base>> \o BMulSmallFrom(a, m, i + 1, p \div Base)

BMulSmall(a, m) == IF m = 0 THEN <<>> ELSE BMulSmallFrom(a, m, 1, 0)

\* schoolbook product, column by column (operands of at most 7 limbs)
RECURSIVE BColumn(_, _, _, _)
BColumn(a, b, k, i) ==
    IF i > Len(a) \/ i > k THEN 0
    ELSE (IF k - i + 1 <= Len(b) THEN a[i] * b[k - i + 1] ELSE 0)
         + BColumn(a, b, k, i + 1)

RECURSIVE BMulFrom(_, _, _, _)
BMulFrom(a, b, k, carry) ==
    IF k > Len(a) + Len(b) - 1
    THEN IF carry = 0 THEN <<>> ELSE <<carry>>
    ELSE LET s == BColumn(a, b, k, 1) + carry
         IN  <<s % Base>> \o BMulFrom(a, b, k + 1, s \div Base)

BMul(a, b) == IF a = <<>> \/ b = <<>> THEN <<>> ELSE BTrim(BMulFrom(a, b, 1, 0))

\* quotient and remainder of a by a small d (0 < d < Base), from the top limb
RECURSIVE BDivSmallFrom(_, _, _, _)
BDivSmallFrom(a, d, i, rem) ==
    IF i = 0 THEN [quo |-> <<>>, rem |-> rem]
    ELSE LET cur  == rem * Base + a[i]
             rest == BDivSmallFrom(a, d, i - 1, cur % d)
         IN  [quo |-> rest.quo \o <<cur \div d>>, rem |-> rest.rem]

BDivSmall(a, d) ==
    LET r == BDivSmallFrom(a, d, Len(a), 0)
    IN  [quo |-> BTrim(r.quo), rem |-> r.rem]

Zeros(n) == [i \in 1..n |-> 0]

\* a * 2^n
BShl(a, n) ==
    IF a = <<>> THEN <<>>
    ELSE Zeros(n \div LimbBits) \o BMulSmall(a, 2 ^ (n % LimbBits))

\* floor(a / 2^n)
BShr(a, n) ==
    IF n \div LimbBits >= Len(a) THEN <<>>
    ELSE BDivSmall(SubSeq(a, (n \div LimbBits) + 1, Len(a)), 2 ^ (n % LimbBits)).quo

\* a mod 2^n = 0
BLowZero(a, n) ==
    /\ \A i \in 1..(n \div LimbBits) : Limb(a, i) = 0
    /\ Limb(a, (n \div LimbBits) + 1) % (2 ^ (n % LimbBits)) = 0

\* bit n (from 0) of a
BBit(a, n) == (Limb(a, (n \div LimbBits) + 1) \div (2 ^ (n % LimbBits))) % 2

RECURSIVE BitLen(_)
BitLen(n) == IF n = 0 THEN 0 ELSE 1 + BitLen(n \div 2)

BBitLen(a) == IF a = <<>> THEN 0 ELSE (Len(a) - 1) * LimbBits + BitLen(a[Len(a)])

BIsOdd(a) == a # <<>> /\ a[1] % 2 = 1

\* the value of a small natural number held in limbs (below 2^28)
BToNat(a) == Limb(a, 1) + Base * Limb(a, 2)

BFromNat(n) == BTrim(<<n % Base, n \div Base>>)

-----------------------------------------------------------------------------
(* IEEE-754 binary64: the JavaScript Number type.                          *)

Precision == 53

FZero == [neg |-> FALSE, man |-> <<>>, exp |-> 0]

IsZero(x) == x.man = <<>>

\* The binary64 value nearest to (man + f) * 2^exp, ties to even, where
\* 0 < f < 1 if sticky and f = 0 otherwise (sticky needs BBitLen(man) > 53).
RoundToDouble(neg, man, exp, sticky) ==
    IF man = <<>> THEN FZero
    ELSE LET len == BBitLen(man) IN
         IF len <= Precision
         THEN [neg |-> neg, man |-> BShl(man, Precision - len),
               exp |-> exp - (Precision - len)]
         ELSE LET drop    == len - Precision
                  kept    == BShr(man, drop)
                  half    == BBit(man, drop - 1) = 1
                  below   == sticky \/ ~BLowZero(man, drop - 1)
                  roundUp == half /\ (below \/ BIsOdd(kept))
                  up      == BAdd(kept, <<1>>)
              IN  IF ~roundUp
                  THEN [neg |-> neg, man |-> kept, exp |-> exp + drop]
                  ELSE IF BBitLen(up) > Precision
                  THEN [neg |-> neg, man |-> BShr(up, 1), exp |-> exp + drop + 1]
                  ELSE [neg |-> neg, man |-> up, exp |-> exp + drop]

\* an integer-valued Number
FromInt(k) ==
    IF k = 0 THEN FZero
    ELSE RoundToDouble(k < 0, BFromNat(IF k < 0 THEN -k ELSE k), 0, FALSE)

\* the Number denoted by the decimal literal num/den (den a power of ten
\* below Base): the binary64 value nearest to the quotient
FromDecimal(num, den) ==
    LET d == BDivSmall(BShl(BFromNat(num), 5 * LimbBits), den)
    IN  RoundToDouble(FALSE, d.quo, -(5 * LimbBits), d.rem # 0)

\* the Number denoted by the decimal literal whole.g1g2..gn, where every gi
\* is a group of four decimal digits: the binary64 value nearest to it
RECURSIVE DecimalDigits(_, _, _)
DecimalDigits(acc, groups, i) ==
    IF i > Len(groups) THEN acc
    ELSE DecimalDigits(BAdd(BMulSmall(acc, 10000), BFromNat(groups[i])), groups, i + 1)

RECURSIVE DivideGroups(_, _, _)
DivideGroups(a, n, sticky) ==
    IF n = 0 THEN [quo |-> a, sticky |-> sticky]
    ELSE LET d == BDivSmall(a, 10000)
         IN  DivideGroups(d.quo, n - 1, sticky \/ d.rem # 0)

ParseDecimal(neg, whole, groups) ==
    LET digits == BTrim(DecimalDigits(BFromNat(whole), groups, 1))
        shift  == (Len(groups) + 5) * LimbBits
        d      == DivideGroups(BShl(digits, shift), Len(groups), FALSE)
    IN  RoundToDouble(neg, d.quo, -shift, d.sticky)

\* the Number i places above x in the order of the binary64 values (below
\* for negative i), for x and the result in the same binade
StepUlps(x, i) ==
    LET d == IF x.neg THEN -i ELSE i
    IN  IF d >= 0 THEN [x EXCEPT !.man = BTrim(BAdd(x.man, BFromNat(d)))]
        ELSE [x EXCEPT !.man = BSub(x.man, BFromNat(-d))]

FNeg(x) == IF IsZero(x) THEN x ELSE [x EXCEPT !.neg = ~x.neg]

FAbs(x) == [x EXCEPT !.neg = FALSE]

\* x * y
FMul(x, y) ==
    IF IsZero(x) \/ IsZero(y) THEN FZero
    ELSE RoundToDouble(x.neg # y.neg, BMul(x.man, y.man), x.exp + y.exp, FALSE)

\* x + y
FAdd(x, y) ==
    IF IsZero(x) THEN y
    ELSE IF IsZero(y) THEN x
    ELSE LET e  == IF x.exp < y.exp THEN x.exp ELSE y.exp
             mx == BShl(x.man, x.exp - e)
             my == BShl(y.man, y.exp - e)
             c  == BCmp(mx, my)
         IN  IF x.neg = y.neg THEN RoundToDouble(x.neg, BAdd(mx, my), e, FALSE)
             ELSE IF c = 0 THEN FZero
             ELSE IF c > 0 THEN RoundToDouble(x.neg, BSub(mx, my), e, FALSE)
             ELSE RoundToDouble(y.neg, BSub(my, mx), e, FALSE)

\* x - y
FSub(x, y) == FAdd(x, FNeg(y))

\* the low zero limbs of a significand
RECURSIVE LowZeroLimbs(_, _)
LowZeroLimbs(a, i) ==
    IF i <= Len(a) /\ a[i] = 0 THEN LowZeroLimbs(a, i + 1) ELSE i - 1

\* x / y, for a divisor whose significand is a single limb times a power of
\* the base (the only divisor of the engine is 1.5)
FDiv(x, y) ==
    IF IsZero(x) THEN FZero
    ELSE LET k == LowZeroLimbs(y.man, 1)
             d == BDivSmall(BShl(x.man, 2 * LimbBits), y.man[k + 1])
         IN  RoundToDouble(x.neg # y.neg, d.quo,
                           x.exp - 2 * LimbBits - (y.exp + k * LimbBits),
                           d.rem # 0)

\* one more quotient bit of the long division by d
BDivBit(st, d) ==
    LET twice == BMulSmall(st.rem, 2)
        fits  == BCmp(twice, d) >= 0
    IN  [quo |-> BAdd(BMulSmall(st.quo, 2), IF fits THEN <<1>> ELSE <<>>),
         rem |-> IF fits THEN BSub(twice, d) ELSE twice]

\* seven more quotient bits
BDivBits7(st, d) ==
    BDivBit(BDivBit(BDivBit(BDivBit(BDivBit(BDivBit(BDivBit(st, d), d), d), d), d), d), d)

\* 7 * n more quotient bits of the long division by d
RECURSIVE BDivBits(_, _, _)
BDivBits(st, d, n) ==
    IF n = 0 THEN st
    ELSE IF st.rem = <<>> THEN [quo |-> BShl(st.quo, 7 * n), rem |-> <<>>]
    ELSE BDivBits(BDivBits7(st, d), d, n - 1)

\* x / y for any nonzero divisor: the binary64 value nearest to the quotient
FQuotient(x, y) ==
    IF IsZero(x) THEN FZero
    ELSE LET whole == BCmp(x.man, y.man) >= 0
             d == BDivBits([quo |-> IF whole THEN <<1>> ELSE <<>>,
                            rem |-> IF whole THEN BSub(x.man, y.man) ELSE x.man],
                           y.man, (4 * LimbBits) \div 7)
         IN  RoundToDouble(x.neg # y.neg, d.quo, x.exp - y.exp - 4 * LimbBits,
                           d.rem # <<>>)

\* x < y, x <= y
FLt(x, y) ==
    IF IsZero(x) THEN ~IsZero(y) /\ ~y.neg
    ELSE IF IsZero(y) THEN x.neg
    ELSE IF x.neg # y.neg THEN x.neg
    ELSE LET c == IF x.exp # y.exp
                  THEN (IF x.exp < y.exp THEN -1 ELSE 1)
                  ELSE BCmp(x.man, y.man)
         IN  IF x.neg THEN c > 0 ELSE c < 0

FLe(x, y) == x = y \/ FLt(x, y)

\* Math.max, Math.min, Math.abs
MathMax(x, y) == IF FLt(x, y) THEN y ELSE x
MathMin(x, y) == IF FLt(y, x) THEN y ELSE x
MathAbs(x) == FAbs(x)

\* floor(|x| * 10^digits + 1/2) of a Number below 2^28 / 10^digits in
\* magnitude: the digits that Number.prototype.toFixed prints, and (with
\* digits = 0) the magnitude part of a rounding to the nearest integer with
\* ties away from zero
RoundHalfUpMagnitude(x, scale) ==
    IF IsZero(x) THEN 0
    ELSE LET m == BMulSmall(x.man, scale)
         IN  IF x.exp >= 0 THEN BToNat(BShl(m, x.exp))
             ELSE BToNat(BShr(m, -x.exp)) + BBit(m, -x.exp - 1)

\* Math.round: the nearest integer, ties toward +Infinity
MathRound(x) ==
    IF IsZero(x) THEN 0
    ELSE IF ~x.neg THEN RoundHalfUpMagnitude(x, 1)
    ELSE IF x.exp >= 0 THEN -BToNat(BShl(x.man, x.exp))
    ELSE LET fl   == BToNat(BShr(x.man, -x.exp))
             half == BBit(x.man, -x.exp - 1) = 1
             more == ~BLowZero(x.man, -x.exp - 1)
         IN  IF half /\ more THEN -(fl + 1) ELSE -fl

\* Number.prototype.toFixed(digits): the sign and the digits printed
ToFixed(x, digits) ==
    [minus |-> x.neg, digits |-> RoundHalfUpMagnitude(x, 10 ^ digits), places |-> digits]

-----------------------------------------------------------------------------
(* State.                                                                  *)

VARIABLES
    coins,      \* Page state `coins`: the asset records received from the feed
    enriched,   \* the `enriched` list that coins.map(...) is building
    confArg,    \* a breakdown handed to computeConfidence by a direct caller
    confResult, \* what that call of computeConfidence returned
    req,        \* the request handed to GET of the markets route
    routePc,    \* where that call of GET stands: start, fetch, json, done
    perPage,    \* GET's local `perPage`
    upstreamCall, \* the URL GET passed to fetch
    upstreamRes,  \* how that fetch settled
    response,   \* what GET returned
    hasWindow,  \* typeof window !== "undefined"
    storageMode, \* "ok"; "full": setItem throws; "denied": every access throws
    localStorage, \* the item stored under each key: a string or null
    returned,   \* the last call of lib/watchlist.js or lib/preferences.js
    lastPrefs,  \* the last savePreferences or resetPreferences call
    mounted,    \* the Page component has rendered for the first time
    watchIds,   \* Page state `watchIds` of the latest render (Set, in order)
    queued,     \* values passed to setWatchIds since the latest render
    effects,    \* effects of the latest commit that have not run yet
    writes,     \* the item under the watchlist key at page load, then each
                \* item the page has set before the first toggle
    toggled,    \* the user has toggled a star
    scanPc,     \* the alert scanner: "unmounted", "products" (the product
                \* list is being fetched), "ready", "failed"
    symbols,    \* scanner state `symbols`
    scores,     \* scanner state `scores`: newScores of the latest tick
    alertsEnabled, \* scanner state `alertsEnabled`
    audioReady, \* scanner state `audioReady`
    previousPrices, \* scanner ref: the price of each symbol at the latest tick
    history,    \* scanner ref: the latest changes of each symbol
    alerted,    \* scanner ref: the alert flag of each symbol
    interval,   \* the fetchPrices closure that setInterval calls: the
                \* symbols, audioReady and alertsEnabled of its render
    ticks,      \* the fetchPrices calls that have settled
    plays,      \* how many times the alert sound was played for each symbol
    calm,       \* for each symbol: since its latest play a tick has
                \* processed it with isAlert false
    loadVersion, \* which Page the dashboard runs: "page.js" or "part_000"
    loaderMounted, \* the dashboard has mounted
    pageCoins,  \* dashboard state `coins`
    loadStatus, \* dashboard state `status`: loading and error
    fetchedAt,  \* dashboard state `fetchedAt`
    isRefreshing, \* dashboard state `isRefreshing`
    inFlightRef, \* dashboard ref `inFlightRef.current`
    pending,    \* the load calls suspended at an await, oldest first
    calls,      \* the load calls made so far
    loadsDone,  \* the load calls that have run to their end
    lastLoad    \* the latest load call that ran to its end

engineVars == <<coins, enriched, confArg, confResult>>

routeVars == <<req, routePc, perPage, upstreamCall, upstreamRes, response>>

storeVars == <<hasWindow, storageMode, localStorage, returned, lastPrefs>>

pageVars == <<mounted, watchIds, queued, effects, writes, toggled>>

scannerVars == <<scanPc, symbols, scores, alertsEnabled, audioReady, previousPrices,
                 history, alerted, interval, ticks, plays, calm>>

loaderVars == <<loadVersion, loaderMounted, pageCoins, loadStatus, fetchedAt,
                isRefreshing, inFlightRef, pending, calls, loadsDone, lastLoad>>

outsideEngine == <<routeVars, storeVars, pageVars, scannerVars, loaderVars>>

vars == <<engineVars, routeVars, storeVars, pageVars, scannerVars, loaderVars>>

-----------------------------------------------------------------------------
(* lib/momentum.js                                                         *)

\* a field of a record received as JSON: absent or null, or a Number
\* (value is what Number(field) gives: Number(null) is 0)
Null == [type |-> "null", value |-> FZero]
NumberField(x) == [type |-> "number", value |-> x]
Num(k) == NumberField(FromInt(k))

\* the literals of the source
Zero == FZero
N(k) == FromInt(k)

W7 == FromDecimal(45, 100)
W24 == FromDecimal(35, 100)
W30 == FromDecimal(20, 100)
Soften30 == FromDecimal(15, 10)
Spread == FromDecimal(12, 10)
PenaltyRate == FromDecimal(25, 100)

\* a default that is not the one asked for: a missing field counts as 1
CoalesceOne(v, d) == IF v = Null THEN Num(1) ELSE v

\* v ?? d
Coalesce(v, d) == IF v = Null THEN d ELSE v

\* Number(v) of a field that holds a number or null
ToNumber(v) == v.value

\* a clamp that was left out: the value passes through
clampMissing(n, min, max) == n

clamp(n, min, max) == MathMax(min, MathMin(max, n))

\* formatPct(n): "—" for a missing value, else the sign, the two-decimal
\* digits and "%"
formatPct(n) ==
    IF n = Null THEN [dash |-> TRUE, plus |-> FALSE, fixed |-> [minus |-> FALSE, digits |-> 0, places |-> -1]]
    ELSE [dash |-> FALSE, plus |-> FLt(Zero, n), fixed |-> ToFixed(n, 2)]

\* a template literal with one substitution, and a plain string literal
Template(text, arg) == [text |-> text, arg |-> arg]
NoFixed == [minus |-> FALSE, digits |-> 0, places |-> -1]
NoArg == [dash |-> FALSE, plus |-> FALSE, fixed |-> NoFixed]
Literal(text) == [text |-> text, arg |-> NoArg]

\* the drivers array hoisted out of the function: every call pushes onto
\* the array the previous call left behind
SharedDrivers ==
    IF enriched = <<>> THEN <<>> ELSE enriched[Len(enriched)].breakdown.drivers

\* the drivers array of a call: allocated empty
NewDrivers == <<>>

\* the whatWouldChange array of a call: allocated empty
NewWhatWouldChange == <<>>

Fallback == "Momentum is already supported by multiple aligned signals."

\* line 119: the penalty, without the clamp of the proxy
penaltyUnclamped(volatilityProxy) == FMul(volatilityProxy, PenaltyRate)

\* line 119: the penalty
penalty(volatilityProxy) == FMul(clamp(volatilityProxy, N(0), N(40)), PenaltyRate)

\* lines 114-117 without the division of n30 by 1.5
rawUnsoftened(c24, c7, c30) ==
    LET n24 == clamp(c24, N(-20), N(20))
        n7  == clamp(c7, N(-30), N(30))
        n30 == clamp(c30, N(-50), N(50))
    IN  FAdd(FAdd(FMul(W7, n7), FMul(W24, n24)), FMul(W30, n30))

\* lines 110-117: `raw`, from the clamped changes
rawOf(c24, c7, c30) ==
    LET n24 == clamp(c24, N(-20), N(20))
        n7  == clamp(c7, N(-30), N(30))
        n30 == clamp(c30, N(-50), N(50))
    IN  FAdd(FAdd(FMul(W7, n7), FMul(W24, n24)),
             FMul(W30, FDiv(n30, Soften30)))

\* line 121: `scaled`, before the final clamp
scaledOf(c24, c7, c30, volatilityProxy) ==
    FSub(FAdd(N(50), FMul(rawOf(c24, c7, c30), Spread)), penalty(volatilityProxy))

\* line 122: the score of computeMomentumBreakdown
ScoreOf(c24, c7, c30, volatilityProxy) ==
    MathRound(clamp(scaledOf(c24, c7, c30, volatilityProxy), N(0), N(100)))

\* the 7-day commentary with exclusive thresholds
Driver7Exclusive(c7) ==
    IF FLt(N(5), c7)
    THEN Template("Strong 7-day trend (%) is supporting momentum.", formatPct(c7))
    ELSE IF FLt(c7, N(-5))
    THEN Template("Weak 7-day trend (%) is dragging momentum.", formatPct(c7))
    ELSE Template("7-day trend is mild (%), so momentum is less decisive.", formatPct(c7))

\* lines 127-129: the 7-day commentary
Driver7(c7) ==
    IF FLe(N(5), c7)
    THEN Template("Strong 7-day trend (%) is supporting momentum.", formatPct(c7))
    ELSE IF FLe(c7, N(-5))
    THEN Template("Weak 7-day trend (%) is dragging momentum.", formatPct(c7))
    ELSE Template("7-day trend is mild (%), so momentum is less decisive.", formatPct(c7))

\* lines 131-133: the 24h commentary
Driver24(c24) ==
    IF FLe(N(3), c24)
    THEN Template("Recent 24h move is positive (%) and adds short-term strength.", formatPct(c24))
    ELSE IF FLe(c24, N(-3))
    THEN Template("Recent 24h move is negative (%) and adds short-term pressure.", formatPct(c24))
    ELSE Template("24h move is small (%), so the short-term signal is muted.", formatPct(c24))

\* lines 135-140: the 30-day commentary; a sequence of the sentences pushed
Driver30(c30) ==
    IF FLe(N(15), MathAbs(c30))
    THEN IF FLe(Zero, c30)
         THEN <<Template("30-day uptrend (%) provides broader context.", formatPct(c30))>>
         ELSE <<Template("30-day downtrend (%) provides broader context.", formatPct(c30))>>
    ELSE <<Template("30-day change is modest (%), suggesting a steadier backdrop.", formatPct(c30))>>

\* the choppiness commentary with an exclusive threshold
DriverChopExclusive(volatilityProxy) ==
    IF FLt(N(15), volatilityProxy)
    THEN Template("Signals are choppy (24h vs 7d differs by ~% pts), which reduces confidence.",
                  [dash |-> FALSE, plus |-> FALSE, fixed |-> ToFixed(volatilityProxy, 1)])
    ELSE Template("Signals are fairly consistent (24h vs 7d gap ~% pts).",
                  [dash |-> FALSE, plus |-> FALSE, fixed |-> ToFixed(volatilityProxy, 1)])

\* lines 142-148: the choppiness commentary
DriverChop(volatilityProxy) ==
    IF FLe(N(15), volatilityProxy)
    THEN Template("Signals are choppy (24h vs 7d differs by ~% pts), which reduces confidence.",
                  [dash |-> FALSE, plus |-> FALSE, fixed |-> ToFixed(volatilityProxy, 1)])
    ELSE Template("Signals are fairly consistent (24h vs 7d gap ~% pts).",
                  [dash |-> FALSE, plus |-> FALSE, fixed |-> ToFixed(volatilityProxy, 1)])

\* line 125: trendAligned
trendAligned(c24, c7) ==
    \/ (FLe(Zero, c24) /\ FLe(Zero, c7))
    \/ (FLe(c24, Zero) /\ FLe(c7, Zero))

\* lines 150-151: the alignment commentary
DriverAligned(c24, c7) ==
    IF trendAligned(c24, c7)
        THEN Literal("Short-term and 7-day signals point in the same direction (better signal quality).")
        ELSE Literal("Short-term and 7-day signals conflict (treat as a lower-quality setup).")

\* DriversOf without the else branch of the 30-day commentary
DriversOfNoElse(d0, c24, c7, c30, volatilityProxy) ==
    d0 \o <<Driver7(c7), Driver24(c24)>>
       \o (IF FLe(N(15), MathAbs(c30)) THEN Driver30(c30) ELSE <<>>)
       \o <<DriverChop(volatilityProxy), DriverAligned(c24, c7)>>

\* the drivers of computeMomentumBreakdown, pushed in turn onto the array d0
DriversOf(d0, c24, c7, c30, volatilityProxy) ==
    d0 \o <<Driver7(c7), Driver24(c24)>> \o Driver30(c30)
       \o <<DriverChop(volatilityProxy), DriverAligned(c24, c7)>>

\* the suggestions as an else-if chain: only the first guard that holds
SuggestionsElseIf(w0, c24, c7, c30, volatilityProxy) ==
    w0 \o (IF FLt(c7, N(5))
           THEN <<"A stronger 7-day trend would raise momentum.">>
           ELSE IF FLt(c24, N(3))
           THEN <<"A clean positive 24h move would improve the short-term signal.">>
           ELSE IF FLt(N(12), volatilityProxy)
           THEN <<"Less choppiness between short-term and 7-day moves would raise confidence.">>
           ELSE IF FLt(c30, Zero)
           THEN <<"A stabilizing 30-day trend would reduce longer-term drag.">>
           ELSE <<>>)

\* lines 154-157: the suggestions whose guards hold, pushed in turn onto w0
Suggestions(w0, c24, c7, c30, volatilityProxy) ==
    w0 \o (IF FLt(c7, N(5))
           THEN <<"A stronger 7-day trend would raise momentum.">> ELSE <<>>)
       \o (IF FLt(c24, N(3))
           THEN <<"A clean positive 24h move would improve the short-term signal.">> ELSE <<>>)
       \o (IF FLt(N(12), volatilityProxy)
           THEN <<"Less choppiness between short-term and 7-day moves would raise confidence.">>
           ELSE <<>>)
       \o (IF FLt(c30, Zero)
           THEN <<"A stabilizing 30-day trend would reduce longer-term drag.">> ELSE <<>>)

\* WhatWouldChangeOf without the fallback sentence
WhatWouldChangeNoFallback(w0, c24, c7, c30, volatilityProxy) ==
    Suggestions(w0, c24, c7, c30, volatilityProxy)

\* the whatWouldChange list that computeMomentumBreakdown returns
WhatWouldChangeOf(w0, c24, c7, c30, volatilityProxy) ==
    LET whatWouldChange == Suggestions(w0, c24, c7, c30, volatilityProxy)
    IN  IF Len(whatWouldChange) # 0 THEN whatWouldChange ELSE <<Fallback>>

computeMomentumBreakdown(coin) ==
    LET c24 == ToNumber(Coalesce(coin.price_change_percentage_24h_in_currency, Num(0)))
        c7  == ToNumber(Coalesce(coin.price_change_percentage_7d_in_currency, Num(0)))
        c30 == ToNumber(Coalesce(coin.price_change_percentage_30d_in_currency, Num(0)))
        volatilityProxy == MathAbs(FSub(c24, c7))
    IN  [score |-> ScoreOf(c24, c7, c30, volatilityProxy),
         inputs |-> [c24 |-> c24, c7 |-> c7, c30 |-> c30,
                     volatilityProxy |-> volatilityProxy],
         drivers |-> DriversOf(NewDrivers, c24, c7, c30, volatilityProxy),
         whatWouldChange |-> WhatWouldChangeOf(NewWhatWouldChange, c24, c7, c30, volatilityProxy)]

\* line 173: aligned, with zero on either side counted as aligned
alignedStrict(c24, c7) ==
    \/ (FLt(Zero, c24) /\ FLt(Zero, c7))
    \/ (FLt(c24, Zero) /\ FLt(c7, Zero))

aligned(c24, c7) ==
    \/ (FLe(Zero, c24) /\ FLe(Zero, c7))
    \/ (FLe(c24, Zero) /\ FLe(c7, Zero))

\* computeConfidence with the Medium rule tested before the High rule
computeConfidenceMediumFirst(breakdown) ==
    LET score == breakdown.score
        c24 == breakdown.inputs.c24
        c7 == breakdown.inputs.c7
        volatilityProxy == breakdown.inputs.volatilityProxy
    IN  IF score >= 55 /\ (aligned(c24, c7) \/ FLe(volatilityProxy, N(18)))
        THEN [label |-> "Medium", explanation |-> "Momentum is present"]
        ELSE IF score >= 70 /\ aligned(c24, c7) /\ FLe(volatilityProxy, N(12))
        THEN [label |-> "High", explanation |-> "Signals are strong"]
        ELSE [label |-> "Low", explanation |-> "Momentum is weak"]

\* computeConfidence with the score test of the High rule joined by ||
computeConfidenceScoreOr(breakdown) ==
    LET score == breakdown.score
        c24 == breakdown.inputs.c24
        c7 == breakdown.inputs.c7
        volatilityProxy == breakdown.inputs.volatilityProxy
    IN  IF score >= 70 \/ (aligned(c24, c7) /\ FLe(volatilityProxy, N(12)))
        THEN [label |-> "High", explanation |-> "Signals are strong"]
        ELSE IF score >= 55 /\ (aligned(c24, c7) \/ FLe(volatilityProxy, N(18)))
        THEN [label |-> "Medium", explanation |-> "Momentum is present"]
        ELSE [label |-> "Low", explanation |-> "Momentum is weak"]

\* computeConfidence with a High rule that does not look at the proxy
computeConfidenceNoProxy(breakdown) ==
    LET score == breakdown.score
        c24 == breakdown.inputs.c24
        c7 == breakdown.inputs.c7
        volatilityProxy == breakdown.inputs.volatilityProxy
    IN  IF score >= 70 /\ aligned(c24, c7)
        THEN [label |-> "High", explanation |-> "Signals are strong"]
        ELSE IF score >= 55 /\ (aligned(c24, c7) \/ FLe(volatilityProxy, N(18)))
        THEN [label |-> "Medium", explanation |-> "Momentum is present"]
        ELSE [label |-> "Low", explanation |-> "Momentum is weak"]

computeConfidence(breakdown) ==
    LET score == breakdown.score
        c24 == breakdown.inputs.c24
        c7 == breakdown.inputs.c7
        volatilityProxy == breakdown.inputs.volatilityProxy
    IN  IF score >= 70 /\ aligned(c24, c7) /\ FLe(volatilityProxy, N(12))
        THEN [label |-> "High",
              explanation |-> "Signals are strong and mostly aligned. This does not predict returns - it indicates cleaner momentum conditions."]
        ELSE IF score >= 55 /\ (aligned(c24, c7) \/ FLe(volatilityProxy, N(18)))
        THEN [label |-> "Medium",
              explanation |-> "Momentum is present, but the signal quality is mixed (mild conflict or choppiness). Consider smaller position sizing or waiting for confirmation."]
        ELSE [label |-> "Low",
              explanation |-> "Momentum is weak or inconsistent. This is not a forecast - it suggests the current setup is noisier and harder to rely on."]

-----------------------------------------------------------------------------
(* The inputs.                                                             *)

\* how far beyond the clamping ranges the dense grid of inputs reaches
Over == 1

\* a magnitude far outside every clamping range
Huge == 1000

\* 7-day changes: every whole percentage from just below to just above the
\* clamping range, and the far values
Values7 == (-(30 + Over) .. (30 + Over)) \cup {-Huge, Huge}

\* 24h changes: the whole percentages around the clamping bounds and around
\* the thresholds 0 and +-3, and the far values
Values24 ==
    (-(20 + Over) .. -19) \cup (-4 .. 4) \cup (19 .. (20 + Over)) \cup {-Huge, Huge}

\* 30-day changes: beyond and at the clamping bounds, at the thresholds 0 and
\* +-15, and a few values between
Values30 == {-Huge, -(50 + Over), -50, -15, -11, 0, 2, 15, 50 + Over}

Field(S) == {Num(k) : k \in S} \cup {Null}

Coin(f24, f7, f30) ==
    [price_change_percentage_24h_in_currency |-> f24,
     price_change_percentage_7d_in_currency  |-> f7,
     price_change_percentage_30d_in_currency |-> f30]

\* the worked scenarios of the specification (section 8)
Scenarios ==
    {Coin(Num(0), Num(0), Num(0)), Coin(Num(10), Num(10), Num(10)),
     Coin(Num(8), Num(12), Num(5)), Coin(Num(-25), Num(-35), Num(-60)),
     Coin(Null, Null, Null)}

Coins == {Coin(f24, f7, f30) : f24 \in Field(Values24), f7 \in Field(Values7),
                               f30 \in Field(Values30)} \cup Scenarios

-----------------------------------------------------------------------------
(* app/page.js: the enrichment of the fetched coins.                       *)

NoBreakdown ==
    [score |-> -1,
     inputs |-> [c24 |-> Zero, c7 |-> Zero, c30 |-> Zero, volatilityProxy |-> Zero],
     drivers |-> <<>>, whatWouldChange |-> <<>>]

NoConfidence == [label |-> "none", explanation |-> ""]

\* the callback of coins.map filling in the defaults in place:
\* c.field ??= 0 before scoring
EnrichInPlace ==
    /\ Len(enriched) < Len(coins)
    /\ LET k == Len(enriched) + 1
           c == Coin(Coalesce(coins[k].price_change_percentage_24h_in_currency, Num(0)),
                     Coalesce(coins[k].price_change_percentage_7d_in_currency, Num(0)),
                     Coalesce(coins[k].price_change_percentage_30d_in_currency, Num(0)))
           breakdown == computeMomentumBreakdown(c)
           confidence == computeConfidence(breakdown)
       IN  /\ coins' = [coins EXCEPT ![k] = c]
           /\ enriched' = Append(enriched, [coin |-> c, breakdown |-> breakdown,
                                             score |-> breakdown.score,
                                             confidence |-> confidence])
    /\ UNCHANGED <<confArg, confResult, outsideEngine>>

\* one call of the callback of coins.map: (c) => { breakdown, confidence,
\* return { ...c, breakdown, score, confidence } }
Enrich ==
    /\ Len(enriched) < Len(coins)
    /\ LET c == coins[Len(enriched) + 1]
           breakdown == computeMomentumBreakdown(c)
           confidence == computeConfidence(breakdown)
       IN  enriched' = Append(enriched, [coin |-> c, breakdown |-> breakdown,
                                         score |-> breakdown.score,
                                         confidence |-> confidence])
    /\ UNCHANGED <<coins, confArg, confResult, outsideEngine>>

\* a direct call computeConfidence(breakdown)
Classify ==
    /\ confArg # NoBreakdown
    /\ confResult = NoConfidence
    /\ confResult' = computeConfidence(confArg)
    /\ UNCHANGED <<coins, enriched, confArg, outsideEngine>>

\* no request at the markets route
NoValue == [kind |-> "none"]

RouteIdle ==
    /\ req = NoValue
    /\ routePc = "idle"
    /\ perPage = NoValue
    /\ upstreamCall = NoValue
    /\ upstreamRes = NoValue
    /\ response = NoValue

WatchlistKey == "altcoin_momentum_watchlist_v1"
PreferencesKey == "crypto_momentum_preferences_v1"

StoreIdle ==
    /\ hasWindow = FALSE
    /\ storageMode = "ok"
    /\ localStorage = [k \in {WatchlistKey, PreferencesKey} |-> [kind |-> "null"]]
    /\ returned = NoValue
    /\ lastPrefs = NoValue

PageIdle ==
    /\ mounted = FALSE
    /\ watchIds = <<>>
    /\ queued = <<>>
    /\ effects = <<>>
    /\ writes = <<>>
    /\ toggled = FALSE

\* the symbols the alert scanner can follow
Tickers == {"SOL", "ADA"}

\* the alert scanner has not been opened
ScannerIdle ==
    /\ scanPc = "unmounted"
    /\ symbols = <<>>
    /\ scores = [s \in Tickers |-> [kind |-> "undefined"]]
    /\ alertsEnabled = FALSE
    /\ audioReady = FALSE
    /\ previousPrices = [s \in Tickers |-> [kind |-> "undefined"]]
    /\ history = [s \in Tickers |-> <<>>]
    /\ alerted = [s \in Tickers |-> FALSE]
    /\ interval = NoValue
    /\ ticks = 0
    /\ plays = [s \in Tickers |-> 0]
    /\ calm = [s \in Tickers |-> FALSE]

\* the dashboard has not been opened
LoaderIdle ==
    /\ loadVersion = "page.js"
    /\ loaderMounted = FALSE
    /\ pageCoins = <<>>
    /\ loadStatus = [loading |-> TRUE, error |-> ""]
    /\ fetchedAt = [kind |-> "string", chars |-> <<>>]
    /\ isRefreshing = FALSE
    /\ inFlightRef = FALSE
    /\ pending = <<>>
    /\ calls = 0
    /\ loadsDone = 0
    /\ lastLoad = NoValue

EngineIdle ==
    /\ coins = <<>>
    /\ enriched = <<>>
    /\ confArg = NoBreakdown
    /\ confResult = NoConfidence

OutsideIdle == RouteIdle /\ StoreIdle /\ PageIdle /\ ScannerIdle /\ LoaderIdle

\* one asset received; nothing enriched yet
Init ==
    /\ coins \in {<<c>> : c \in Coins}
    /\ enriched = <<>>
    /\ confArg = NoBreakdown
    /\ confResult = NoConfidence
    /\ OutsideIdle

Next == Enrich

Spec == Init /\ [][Next]_vars

\* a list of assets received, in any order and with repetitions
MaxCoins == 3

Pool ==
    {Coin(Num(20), Num(30), Num(50)), Coin(Num(-21), Num(-21), Num(-11)),
     Coin(Num(4), Num(-31), Num(-15)), Coin(Num(0), Num(0), Num(0)),
     Coin(Null, Null, Null)}

ListInit ==
    /\ coins \in UNION {[1..n -> Pool] : n \in 1..MaxCoins}
    /\ enriched = <<>>
    /\ confArg = NoBreakdown
    /\ confResult = NoConfidence
    /\ OutsideIdle

ListSpec == ListInit /\ [][Next]_vars

\* assets whose 7-day change is one of the binary64 values next to a point
\* where the exact scaled score is a tie k + 1/2: <<c24, c30, c7>>
MaxUlps == 6

TiePoints ==
    {<<0, 0, ParseDecimal(FALSE, 5, <<1724, 1379, 3103, 4480>>)>>,
     <<0, 0, ParseDecimal(FALSE, 15, <<5172, 4137, 9310, 3450>>)>>,
     <<0, 10, ParseDecimal(FALSE, 16, <<8965, 5172, 4137, 9320>>)>>,
     <<3, 0, ParseDecimal(FALSE, 12, <<344, 8275, 8620, 6900>>)>>,
     <<0, -15, ParseDecimal(FALSE, 6, <<5517, 2413, 7931, 350>>)>>,
     <<-21, -50, ParseDecimal(TRUE, 13, <<2758, 6206, 8965, 5300>>)>>}

FineCoins ==
    {Coin(Num(p[1]), NumberField(StepUlps(p[3], i)), Num(p[2])) :
        p \in TiePoints, i \in -MaxUlps..MaxUlps}

FineInit ==
    /\ coins \in {<<c>> : c \in FineCoins}
    /\ enriched = <<>>
    /\ confArg = NoBreakdown
    /\ confResult = NoConfidence
    /\ OutsideIdle

FineSpec == FineInit /\ [][Next]_vars

\* computeConfidence on any breakdown: every score, the signs of c24 and c7,
\* and the proxy, chosen independently of each other
MaxSign == 1
MaxProxy == 20

Breakdowns ==
    {[score |-> s,
      inputs |-> [c24 |-> N(a), c7 |-> N(b), c30 |-> Zero, volatilityProxy |-> N(v)],
      drivers |-> <<>>, whatWouldChange |-> <<>>] :
        s \in 0..100, a \in -MaxSign..MaxSign, b \in -MaxSign..MaxSign, v \in 0..MaxProxy}

ConfInit ==
    /\ coins = <<>>
    /\ enriched = <<>>
    /\ confArg \in Breakdowns
    /\ confResult = NoConfidence
    /\ OutsideIdle

ConfNext == Classify

ConfSpec == ConfInit /\ [][ConfNext]_vars

-----------------------------------------------------------------------------
(* The markets route, app/api/markets/route.js.  Strings are sequences of  *)
(* one-character strings, so that Number(raw) and String(perPage) are      *)
(* computed from the characters.                                           *)

DecimalDigit == <<"0", "1", "2", "3", "4", "5", "6", "7", "8", "9">>

HexDigit == DecimalDigit \o <<"a", "b", "c", "d", "e", "f">>

LowerCase(ch) ==
    CASE ch = "A" -> "a" [] ch = "B" -> "b" [] ch = "C" -> "c"
      [] ch = "D" -> "d" [] ch = "E" -> "e" [] ch = "F" -> "f"
      [] ch = "X" -> "x" [] OTHER -> ch

IsDigit(ch, digits) == \E i \in 1..Len(digits) : digits[i] = LowerCase(ch)

DigitValue(ch, digits) == (CHOOSE i \in 1..Len(digits) : digits[i] = LowerCase(ch)) - 1

StrWhiteSpace == {" ", "\t", "\n"}

RECURSIVE TrimStart(_)
TrimStart(s) ==
    IF s # <<>> /\ Head(s) \in StrWhiteSpace THEN TrimStart(Tail(s)) ELSE s

RECURSIVE TrimEnd(_)
TrimEnd(s) ==
    IF s # <<>> /\ s[Len(s)] \in StrWhiteSpace
    THEN TrimEnd(SubSeq(s, 1, Len(s) - 1)) ELSE s

\* how many characters of s from position i on are digits
RECURSIVE DigitRun(_, _, _)
DigitRun(s, i, digits) ==
    IF i <= Len(s) /\ IsDigit(s[i], digits) THEN 1 + DigitRun(s, i + 1, digits) ELSE 0

\* the natural number written by the digits s in the given radix
RECURSIVE NatOf(_, _)
NatOf(s, digits) ==
    IF s = <<>> THEN 0
    ELSE NatOf(SubSeq(s, 1, Len(s) - 1), digits) * Len(digits)
            + DigitValue(s[Len(s)], digits)

NaN == [kind |-> "NaN"]
Infinity(neg) == [kind |-> "Infinity", neg |-> neg]
Finite(x) == [kind |-> "finite", value |-> x]

\* digits * 10^e10 as a Number (for e10 >= -4)
ScaleDecimal(neg, digits, e10) ==
    LET x == IF digits = 0 THEN FZero
             ELSE IF e10 >= 0 THEN FromInt(digits * 10 ^ e10)
             ELSE FromDecimal(digits, 10 ^ (-e10))
    IN  Finite(IF neg THEN FNeg(x) ELSE x)

\* StrDecimalLiteral: digits [. digits] [e [+-] digits] with at least one
\* digit before the exponent, or Infinity
StrDecimalLiteral(neg, s) ==
    LET a      == DigitRun(s, 1, DecimalDigit)
        dot    == a < Len(s) /\ s[a + 1] = "."
        b      == IF dot THEN DigitRun(s, a + 2, DecimalDigit) ELSE 0
        m      == a + (IF dot THEN 1 ELSE 0) + b
        hasExp == m < Len(s) /\ LowerCase(s[m + 1]) = "e"
        signed == hasExp /\ m + 1 < Len(s) /\ s[m + 2] \in {"+", "-"}
        from   == m + 2 + (IF signed THEN 1 ELSE 0)
        c      == IF hasExp THEN DigitRun(s, from, DecimalDigit) ELSE 0
        end    == IF hasExp THEN from + c - 1 ELSE m
        mant   == SubSeq(s, 1, a) \o SubSeq(s, a + 2, a + 1 + b)
        e      == NatOf(SubSeq(s, from, from + c - 1), DecimalDigit)
        e10    == (IF signed /\ s[m + 2] = "-" THEN -e ELSE e) - b
    IN  IF s = <<"I", "n", "f", "i", "n", "i", "t", "y">> THEN Infinity(neg)
        ELSE IF a + b = 0 \/ (hasExp /\ c = 0) \/ end # Len(s) THEN NaN
        ELSE ScaleDecimal(neg, NatOf(mant, DecimalDigit), e10)

\* Number(string): StringToNumber of the language
StringToNumber(str) ==
    LET s == TrimEnd(TrimStart(str)) IN
    IF s = <<>> THEN Finite(FZero)
    ELSE IF Len(s) >= 3 /\ s[1] = "0" /\ LowerCase(s[2]) = "x"
    THEN IF DigitRun(s, 3, HexDigit) = Len(s) - 2
         THEN Finite(FromInt(NatOf(SubSeq(s, 3, Len(s)), HexDigit)))
         ELSE NaN
    ELSE IF s[1] \in {"+", "-"} THEN StrDecimalLiteral(s[1] = "-", Tail(s))
    ELSE StrDecimalLiteral(FALSE, s)

\* searchParams.get of a parameter that is absent
NullParam == [kind |-> "null"]

\* a string value
String(chars) == [kind |-> "string", chars |-> chars]

\* Number(raw) for raw a string or null
NumberOf(raw) == IF raw = NullParam THEN Finite(FZero) ELSE StringToNumber(raw.chars)

\* n === k
StrictEquals(n, k) == n.kind = "finite" /\ n.value = FromInt(k)

\* String(n) for n a whole Number from 1 to 2^28
RECURSIVE NatToString(_)
NatToString(k) ==
    IF k < 10 THEN <<DecimalDigit[k + 1]>>
    ELSE NatToString(k \div 10) \o <<DecimalDigit[(k % 10) + 1]>>

NumberToString(n) ==
    NatToString(BToNat(IF n.value.exp >= 0 THEN BShl(n.value.man, n.value.exp)
                       ELSE BShr(n.value.man, -n.value.exp)))

clampPerPageAnyCount(raw) ==
    LET n == NumberOf(raw) IN
    IF \E k \in 1..250 : StrictEquals(n, k) THEN n ELSE Finite(FromInt(100))

clampPerPage(raw) ==
    LET n == NumberOf(raw) IN
    IF StrictEquals(n, 50) \/ StrictEquals(n, 100) \/ StrictEquals(n, 250) THEN n
    ELSE Finite(FromInt(100))

buildUrl(p) ==
    [base |-> "https://api.coingecko.com/api/v3/coins/markets",
     vs_currency |-> "usd",
     order |-> "market_cap_desc",
     per_page |-> NumberToString(p),
     page |-> "1",
     sparkline |-> "false",
     price_change_percentage |-> "24h,7d,30d"]

\* new Response(JSON.stringify(body), { status })
Response(status, body) == [kind |-> "response", status |-> status, body |-> body]

Thrown == [kind |-> "thrown"]

\* try { ... } catch (e) { return 502 }
CatchNothing(outcome) == outcome

Catch(outcome) ==
    IF outcome = Thrown
    THEN Response(502, [error |-> "Failed to reach CoinGecko"])
    ELSE outcome

\* const { searchParams } = new URL(req.url); perPage; fetch(buildUrl(perPage))
GetStart ==
    /\ routePc = "start"
    /\ IF req.urlParses
       THEN /\ perPage' = clampPerPage(req.per_page)
            /\ upstreamCall' = buildUrl(perPage')
            /\ routePc' = "fetch"
            /\ UNCHANGED response
       ELSE /\ response' = Catch(Thrown)
            /\ routePc' = "done"
            /\ UNCHANGED <<perPage, upstreamCall>>
    /\ UNCHANGED <<req, upstreamRes, engineVars, storeVars, pageVars, scannerVars, loaderVars>>

\* how a fetch can settle: rejected, or a response with a status and a body
\* that is JSON text or not
MaxItems == 2

UpstreamStatus == {200, 204, 304, 404, 429, 500}

Upstreams ==
    {[kind |-> "rejected"]} \cup
    {[kind |-> "response", status |-> st, json |-> j] :
        st \in UpstreamStatus,
        j \in {[parses |-> FALSE]} \cup {[parses |-> TRUE, data |-> n] : n \in 0..MaxItems}}

\* res.ok
Ok(res) == res.status >= 200 /\ res.status <= 299

\* await fetch(...) settles; if (!res.ok) return 502
FetchSettles ==
    /\ routePc = "fetch"
    /\ \E r \in Upstreams :
        /\ upstreamRes' = r
        /\ IF r.kind = "rejected"
           THEN response' = Catch(Thrown) /\ routePc' = "done"
           ELSE IF ~Ok(r)
           THEN /\ response' = Catch(Response(502, [error |-> <<"CoinGecko error", r.status>>]))
                /\ routePc' = "done"
           ELSE routePc' = "json" /\ UNCHANGED response
    /\ UNCHANGED <<req, perPage, upstreamCall, engineVars, storeVars, pageVars, scannerVars, loaderVars>>

\* new Date().toISOString()
MaxClock == 1

\* await res.json() settles; return 200 { data, fetchedAt, perPage }
JsonSettles ==
    /\ routePc = "json"
    /\ \E now \in 0..MaxClock :
        response' = Catch(IF upstreamRes.json.parses
                          THEN Response(200, [data |-> upstreamRes.json.data,
                                              fetchedAt |-> now,
                                              perPage |-> perPage])
                          ELSE Thrown)
    /\ routePc' = "done"
    /\ UNCHANGED <<req, perPage, upstreamCall, upstreamRes, engineVars, storeVars, pageVars, scannerVars, loaderVars>>

\* the values of the per_page parameter: absent, the three sizes, the sizes
\* written otherwise, other numbers, and text that is no number
PerPageTexts ==
    {<<"5", "0">>, <<"1", "0", "0">>, <<"2", "5", "0">>,
     <<"5", "0", ".", "0">>, <<"5", "e", "1">>, <<"0", "x", "3", "2">>,
     <<" ", "2", "5", "0">>, <<"+", "1", "0", "0">>, <<"2", "5", "0", "0", "e", "-", "1">>,
     <<>>, <<"0">>, <<"1">>, <<"2", "5">>, <<"4", "9">>, <<"5", "1">>,
     <<"9", "9">>, <<"2", "0", "0">>, <<"2", "5", "1">>, <<"5", "0", "0">>,
     <<"1", "0", "0", "0">>, <<"-", "5", "0">>, <<"5", "0", ".", "5">>,
     <<"1", "e", "3">>, <<"0", "x", "f", "f">>, <<"I", "n", "f", "i", "n", "i", "t", "y">>,
     <<"a", "l", "l">>, <<"5", "0", "p", "x">>, <<"N", "a", "N">>, <<"1", "0", "0", ",">>,
     <<"0", "x">>, <<"1", "e">>, <<".">>}

Requests ==
    {[urlParses |-> u, per_page |-> r] :
        u \in BOOLEAN, r \in {String(t) : t \in PerPageTexts} \cup {NullParam}}

RouteInit ==
    /\ req \in Requests
    /\ routePc = "start"
    /\ perPage = NoValue
    /\ upstreamCall = NoValue
    /\ upstreamRes = NoValue
    /\ response = NoValue
    /\ EngineIdle
    /\ StoreIdle
    /\ PageIdle
    /\ ScannerIdle
    /\ LoaderIdle

RouteNext == GetStart \/ FetchSettles \/ JsonSettles

RouteSpec == RouteInit /\ [][RouteNext]_vars

-----------------------------------------------------------------------------
(* Values of the language and JSON text.  A value is a record tagged with  *)
(* its kind; JSON text is a string (a sequence of characters), parsed and  *)
(* written character by character.  Numbers in JSON text are integers, and *)
(* the only escapes in strings are \" and \\.                              *)

JsNull == [kind |-> "null"]
JsBoolean(b) == [kind |-> "boolean", bool |-> b]
JsNumber(k) == [kind |-> "number", value |-> k]
JsArray(items) == [kind |-> "array", items |-> items]
\* members: a sequence of [key |-> characters, value |-> value], keys distinct
JsObject(members) == [kind |-> "object", members |-> members]
Undefined == [kind |-> "undefined"]

\* ToBoolean
Truthy(v) ==
    CASE v.kind \in {"null", "undefined"} -> FALSE
      [] v.kind = "boolean" -> v.bool
      [] v.kind = "number" -> v.value # 0
      [] v.kind = "string" -> v.chars # <<>>
      [] OTHER -> TRUE

\* obj[key] = value on a sequence of members
SetMember(members, key, value) ==
    IF \E i \in 1..Len(members) : members[i].key = key
    THEN [i \in 1..Len(members) |->
            IF members[i].key = key THEN [key |-> key, value |-> value] ELSE members[i]]
    ELSE Append(members, [key |-> key, value |-> value])

JsonWhiteSpace == {" ", "\t", "\n", "\r"}

RECURSIVE SkipWhiteSpace(_, _)
SkipWhiteSpace(s, i) ==
    IF i <= Len(s) /\ s[i] \in JsonWhiteSpace THEN SkipWhiteSpace(s, i + 1) ELSE i

SyntaxError == [ok |-> FALSE]

Parsed(value, next) == [ok |-> TRUE, value |-> value, next |-> next]

\* s holds the characters of word from position i on
Matches(s, i, word) ==
    /\ i + Len(word) - 1 <= Len(s)
    /\ SubSeq(s, i, i + Len(word) - 1) = word

\* the rest of a string, from the character after the opening quote
RECURSIVE ParseString(_, _, _)
ParseString(s, i, acc) ==
    IF i > Len(s) \/ s[i] \in {"\n", "\t", "\r"} THEN SyntaxError
    ELSE IF s[i] = "\"" THEN Parsed(String(acc), i + 1)
    ELSE IF s[i] = "\\"
    THEN IF i < Len(s) /\ s[i + 1] \in {"\"", "\\"}
         THEN ParseString(s, i + 2, Append(acc, s[i + 1]))
         ELSE SyntaxError
    ELSE ParseString(s, i + 1, Append(acc, s[i]))

\* -? (0 | [1-9][0-9]*)
ParseNumber(s, i) ==
    LET neg  == s[i] = "-"
        from == IF neg THEN i + 1 ELSE i
        run  == IF from <= Len(s) /\ s[from] = "0" THEN 1
                ELSE DigitRun(s, from, DecimalDigit)
        k    == NatOf(SubSeq(s, from, from + run - 1), DecimalDigit)
    IN  IF run = 0 THEN SyntaxError
        ELSE Parsed(JsNumber(IF neg THEN -k ELSE k), from + run)

RECURSIVE ParseValue(_, _)
RECURSIVE ParseElements(_, _, _)
RECURSIVE ParseMembers(_, _, _)

\* the elements of an array after "[" or ",": i is at the next element
ParseElements(s, i, acc) ==
    LET v == ParseValue(s, i) IN
    IF ~v.ok THEN SyntaxError
    ELSE LET k == SkipWhiteSpace(s, v.next) IN
         IF k > Len(s) THEN SyntaxError
         ELSE IF s[k] = "," THEN ParseElements(s, k + 1, Append(acc, v.value))
         ELSE IF s[k] = "]" THEN Parsed(JsArray(Append(acc, v.value)), k + 1)
         ELSE SyntaxError

\* the members of an object after "{" or ",": i is at the next key
ParseMembers(s, i, acc) ==
    LET j == SkipWhiteSpace(s, i) IN
    IF j > Len(s) \/ s[j] # "\"" THEN SyntaxError
    ELSE LET key == ParseString(s, j + 1, <<>>) IN
         IF ~key.ok THEN SyntaxError
         ELSE LET c == SkipWhiteSpace(s, key.next) IN
              IF c > Len(s) \/ s[c] # ":" THEN SyntaxError
              ELSE LET v == ParseValue(s, c + 1) IN
                   IF ~v.ok THEN SyntaxError
                   ELSE LET k    == SkipWhiteSpace(s, v.next)
                            next == SetMember(acc, key.value.chars, v.value)
                        IN  IF k > Len(s) THEN SyntaxError
                            ELSE IF s[k] = "," THEN ParseMembers(s, k + 1, next)
                            ELSE IF s[k] = "}" THEN Parsed(JsObject(next), k + 1)
                            ELSE SyntaxError

ParseValue(s, i) ==
    LET j == SkipWhiteSpace(s, i) IN
    IF j > Len(s) THEN SyntaxError
    ELSE IF s[j] = "[" THEN
         LET k == SkipWhiteSpace(s, j + 1) IN
         IF k <= Len(s) /\ s[k] = "]" THEN Parsed(JsArray(<<>>), k + 1)
         ELSE ParseElements(s, k, <<>>)
    ELSE IF s[j] = "{" THEN
         LET k == SkipWhiteSpace(s, j + 1) IN
         IF k <= Len(s) /\ s[k] = "}" THEN Parsed(JsObject(<<>>), k + 1)
         ELSE ParseMembers(s, k, <<>>)
    ELSE IF s[j] = "\"" THEN ParseString(s, j + 1, <<>>)
    ELSE IF s[j] = "-" \/ IsDigit(s[j], DecimalDigit) THEN ParseNumber(s, j)
    ELSE IF Matches(s, j, <<"t", "r", "u", "e">>) THEN Parsed(JsBoolean(TRUE), j + 4)
    ELSE IF Matches(s, j, <<"f", "a", "l", "s", "e">>) THEN Parsed(JsBoolean(FALSE), j + 5)
    ELSE IF Matches(s, j, <<"n", "u", "l", "l">>) THEN Parsed(JsNull, j + 4)
    ELSE SyntaxError

\* JSON.parse(text): the value, or Thrown for text that is not JSON
JSONparse(text) ==
    LET v == ParseValue(text.chars, 1) IN
    IF v.ok /\ SkipWhiteSpace(text.chars, v.next) > Len(text.chars) THEN v.value
    ELSE Thrown

RECURSIVE Quote(_)
Quote(chars) ==
    IF chars = <<>> THEN <<>>
    ELSE (IF Head(chars) \in {"\"", "\\"} THEN <<"\\", Head(chars)>> ELSE <<Head(chars)>>)
         \o Quote(Tail(chars))

RECURSIVE Serialize(_)
RECURSIVE SerializeItems(_, _)
RECURSIVE SerializeMembers(_, _)

SerializeItems(items, i) ==
    IF i > Len(items) THEN <<>>
    ELSE (IF i > 1 THEN <<",">> ELSE <<>>)
         \o (IF items[i].kind = "undefined" THEN <<"n", "u", "l", "l">>
             ELSE Serialize(items[i]))
         \o SerializeItems(items, i + 1)

SerializeMembers(members, i) ==
    IF i > Len(members) THEN <<>>
    ELSE (IF i > 1 THEN <<",">> ELSE <<>>)
         \o <<"\"">> \o Quote(members[i].key) \o <<"\"", ":">>
         \o Serialize(members[i].value)
         \o SerializeMembers(members, i + 1)

Serialize(v) ==
    CASE v.kind = "null" -> <<"n", "u", "l", "l">>
      [] v.kind = "boolean" ->
            IF v.bool THEN <<"t", "r", "u", "e">> ELSE <<"f", "a", "l", "s", "e">>
      [] v.kind = "number" ->
            IF v.value < 0 THEN <<"-">> \o NatToString(-v.value) ELSE NatToString(v.value)
      [] v.kind = "string" -> <<"\"">> \o Quote(v.chars) \o <<"\"">>
      [] v.kind = "array" -> <<"[">> \o SerializeItems(v.items, 1) \o <<"]">>
      [] v.kind = "object" -> <<"{">> \o SerializeMembers(v.members, 1) \o <<"}">>

\* JSON.stringify(value) for a value that is null, a boolean, a number, a
\* string, an array or an object of such values
JSONstringify(v) == String(Serialize(v))

-----------------------------------------------------------------------------
(* lib/watchlist.js and lib/preferences.js over window.localStorage.       *)

\* window.localStorage.getItem(key)
getItem(key) == IF storageMode = "denied" THEN Thrown ELSE localStorage[key]

\* window.localStorage.setItem(key, text): Thrown, or the items afterwards
setItem(key, text) ==
    IF storageMode \in {"denied", "full"} THEN Thrown
    ELSE [localStorage EXCEPT ![key] = text]

\* window.localStorage.removeItem(key)
removeItem(key) ==
    IF storageMode = "denied" THEN Thrown
    ELSE [localStorage EXCEPT ![key] = JsNull]

EmptyArray == JsArray(<<>>)

loadWatchlistNoFilter ==
    IF ~hasWindow THEN EmptyArray
    ELSE LET raw == getItem(WatchlistKey) IN
         IF raw = Thrown THEN EmptyArray
         ELSE LET parsed == IF Truthy(raw) THEN JSONparse(raw) ELSE EmptyArray IN
              IF parsed = Thrown THEN EmptyArray
              ELSE IF parsed.kind = "array" THEN parsed
              ELSE EmptyArray

loadWatchlist ==
    IF ~hasWindow THEN EmptyArray
    ELSE LET raw == getItem(WatchlistKey) IN
         IF raw = Thrown THEN EmptyArray
         ELSE LET parsed == IF Truthy(raw) THEN JSONparse(raw) ELSE EmptyArray IN
              IF parsed = Thrown THEN EmptyArray
              ELSE IF parsed.kind = "array"
              THEN JsArray(SelectSeq(parsed.items, Truthy))
              ELSE EmptyArray

\* saveWatchlist(ids): what the call returns and the items afterwards
saveWatchlist(ids) ==
    IF ~hasWindow THEN [value |-> Undefined, items |-> localStorage]
    ELSE LET set == setItem(WatchlistKey, JSONstringify(ids)) IN
         IF set = Thrown THEN [value |-> Undefined, items |-> localStorage]
         ELSE [value |-> Undefined, items |-> set]

Key_onboardingDismissed == <<"o", "n", "b", "o", "a", "r", "d", "i", "n", "g", "D", "i", "s", "m", "i", "s", "s", "e", "d">>
Key_defaultView == <<"d", "e", "f", "a", "u", "l", "t", "V", "i", "e", "w">>
Key_hideTop3 == <<"h", "i", "d", "e", "T", "o", "p", "3">>
Key_watchOnlyHighDefault == <<"w", "a", "t", "c", "h", "O", "n", "l", "y", "H", "i", "g", "h", "D", "e", "f", "a", "u", "l", "t">>
Key_watchSortDefault == <<"w", "a", "t", "c", "h", "S", "o", "r", "t", "D", "e", "f", "a", "u", "l", "t">>
Key_marketLimit == <<"m", "a", "r", "k", "e", "t", "L", "i", "m", "i", "t">>
Key_pageSize == <<"p", "a", "g", "e", "S", "i", "z", "e">>

DEFAULTS ==
    JsObject(<<
        [key |-> Key_onboardingDismissed, value |-> JsBoolean(FALSE)],
        [key |-> Key_defaultView, value |-> String(<<"a", "l", "l">>)],
        [key |-> Key_hideTop3, value |-> JsBoolean(FALSE)],
        [key |-> Key_watchOnlyHighDefault, value |-> JsBoolean(FALSE)],
        [key |-> Key_watchSortDefault, value |-> String(<<"s", "c", "o", "r", "e">>)],
        [key |-> Key_marketLimit, value |-> JsNumber(250)],
        [key |-> Key_pageSize, value |-> JsNumber(25)] >>)

\* the own enumerable properties that { ...source } copies
RECURSIVE IndexedMembers(_, _)
IndexedMembers(values, i) ==
    IF i > Len(values) THEN <<>>
    ELSE <<[key |-> NatToString(i - 1), value |-> values[i]]>>
         \o IndexedMembers(values, i + 1)

OwnMembers(source) ==
    CASE source.kind = "object" -> source.members
      [] source.kind = "array" -> IndexedMembers(source.items, 1)
      [] source.kind = "string" ->
            IndexedMembers([i \in 1..Len(source.chars) |-> String(<<source.chars[i]>>)], 1)
      [] OTHER -> <<>>

RECURSIVE Assign(_, _, _)
Assign(members, from, i) ==
    IF i > Len(from) THEN members
    ELSE Assign(SetMember(members, from[i].key, from[i].value), from, i + 1)

\* { ...a, ...b }
ObjectSpread(a, b) == JsObject(Assign(Assign(<<>>, OwnMembers(a), 1), OwnMembers(b), 1))

EmptyObject == JsObject(<<>>)

loadPreferencesStoredOnly ==
    IF ~hasWindow THEN ObjectSpread(DEFAULTS, EmptyObject)
    ELSE LET raw == getItem(PreferencesKey) IN
         IF raw = Thrown THEN ObjectSpread(DEFAULTS, EmptyObject)
         ELSE LET parsed == IF Truthy(raw) THEN JSONparse(raw) ELSE EmptyObject IN
              IF parsed = Thrown THEN ObjectSpread(DEFAULTS, EmptyObject)
              ELSE ObjectSpread(EmptyObject, IF Truthy(parsed) THEN parsed ELSE EmptyObject)

loadPreferences ==
    IF ~hasWindow THEN ObjectSpread(DEFAULTS, EmptyObject)
    ELSE LET raw == getItem(PreferencesKey) IN
         IF raw = Thrown THEN ObjectSpread(DEFAULTS, EmptyObject)
         ELSE LET parsed == IF Truthy(raw) THEN JSONparse(raw) ELSE EmptyObject IN
              IF parsed = Thrown THEN ObjectSpread(DEFAULTS, EmptyObject)
              ELSE ObjectSpread(DEFAULTS, IF Truthy(parsed) THEN parsed ELSE EmptyObject)

savePreferences(next) ==
    IF ~hasWindow THEN [value |-> Undefined, items |-> localStorage]
    ELSE LET set == setItem(PreferencesKey, JSONstringify(next)) IN
         IF set = Thrown THEN [value |-> Undefined, items |-> localStorage]
         ELSE [value |-> Undefined, items |-> set]

resetPreferences ==
    IF ~hasWindow THEN [value |-> Undefined, items |-> localStorage]
    ELSE LET removed == removeItem(PreferencesKey) IN
         IF removed = Thrown THEN [value |-> Undefined, items |-> localStorage]
         ELSE [value |-> Undefined, items |-> removed]

\* a call of one of the five functions of the two libraries
CallLoadWatchlist ==
    /\ returned' = [call |-> "loadWatchlist", value |-> loadWatchlist]
    /\ UNCHANGED <<hasWindow, storageMode, localStorage, lastPrefs>>
    /\ UNCHANGED <<engineVars, routeVars, pageVars, scannerVars, loaderVars>>

\* the arrays of ids a caller saves
IdLists ==
    {JsArray(<<>>),
     JsArray(<<String(<<"s", "o", "l">>)>>),
     JsArray(<<String(<<"s", "o", "l">>), String(<<"b", "t", "c">>)>>)}

CallSaveWatchlist ==
    /\ \E ids \in IdLists :
        LET r == saveWatchlist(ids) IN
        /\ localStorage' = r.items
        /\ returned' = [call |-> "saveWatchlist", value |-> r.value]
    /\ UNCHANGED <<hasWindow, storageMode, lastPrefs>>
    /\ UNCHANGED <<engineVars, routeVars, pageVars, scannerVars, loaderVars>>

CallLoadPreferences ==
    /\ returned' = [call |-> "loadPreferences", value |-> loadPreferences]
    /\ UNCHANGED <<hasWindow, storageMode, localStorage, lastPrefs>>
    /\ UNCHANGED <<engineVars, routeVars, pageVars, scannerVars, loaderVars>>

\* the preference objects a caller saves
PreferenceObjects ==
    {JsObject(<<[key |-> <<"m", "a", "r", "k", "e", "t", "L", "i", "m", "i", "t">>, value |-> JsNumber(100)]>>),
     JsObject(<<[key |-> <<"d", "e", "f", "a", "u", "l", "t", "V", "i", "e", "w">>, value |-> String(<<"w", "a", "t", "c", "h", "l", "i", "s", "t">>)], [key |-> <<"h", "i", "d", "e", "T", "o", "p", "3">>, value |-> JsBoolean(TRUE)]>>),
     JsObject(<<>>)}

CallSavePreferences ==
    /\ \E next \in PreferenceObjects :
        LET r == savePreferences(next) IN
        /\ localStorage' = r.items
        /\ returned' = [call |-> "savePreferences", value |-> r.value]
        /\ lastPrefs' = [call |-> "savePreferences", next |-> next]
    /\ UNCHANGED <<hasWindow, storageMode>>
    /\ UNCHANGED <<engineVars, routeVars, pageVars, scannerVars, loaderVars>>

CallResetPreferences ==
    /\ LET r == resetPreferences IN
        /\ localStorage' = r.items
        /\ returned' = [call |-> "resetPreferences", value |-> r.value]
        /\ lastPrefs' = [call |-> "resetPreferences"]
    /\ UNCHANGED <<hasWindow, storageMode>>
    /\ UNCHANGED <<engineVars, routeVars, pageVars, scannerVars, loaderVars>>

\* what the device holds under the two keys before the first call: nothing,
\* text that is not JSON, JSON that is not of the expected shape, and JSON
\* written by an earlier visit
WatchlistTexts ==
    {<<"[", "\"", "b", "t", "c", "\"", ",", "\"", "e", "t", "h", "\"", "]">>,
     <<"[", "\"", "b", "t", "c", "\"", "]">>,
     <<"[", "]">>,
     <<" ", "[", " ", "\"", "b", "t", "c", "\"", " ", ",", " ", "\"", "\"", " ", ",", " ", "n", "u", "l", "l", " ", ",", " ", "0", " ", ",", " ", "f", "a", "l", "s", "e", " ", ",", " ", "\"", "e", "t", "h", "\"", " ", "]", " ">>,
     <<"[", "\"", "b", "t", "c", "\"", ",", "7", ",", "t", "r", "u", "e", ",", "[", "]", ",", "{", "}", "]">>,
     <<>>,
     <<"[">>,
     <<"[", "\"", "b", "t", "c", "\"", ",", "]">>,
     <<"b", "t", "c">>,
     <<"n", "u", "l", "l">>,
     <<"{", "}">>,
     <<"{", "\"", "0", "\"", ":", "\"", "b", "t", "c", "\"", "}">>,
     <<"\"", "b", "t", "c", "\"">>,
     <<"5">>,
     <<"t", "r", "u", "e">>}

PreferencesTexts ==
    {<<>>,
     <<"{">>,
     <<"{", "\"", "m", "a", "r", "k", "e", "t", "L", "i", "m", "i", "t", "\"", ":", "5", "0", "}">>,
     <<"{", "\"", "h", "i", "d", "e", "T", "o", "p", "3", "\"", ":", "t", "r", "u", "e", ",", "\"", "p", "a", "g", "e", "S", "i", "z", "e", "\"", ":", "5", "0", ",", "\"", "t", "h", "e", "m", "e", "\"", ":", "\"", "d", "a", "r", "k", "\"", "}">>,
     <<"n", "u", "l", "l">>,
     <<"0">>,
     <<"[", "1", "0", "0", "]">>,
     <<"\"", "a", "b", "\"">>,
     <<"{", "}">>,
     <<"{", "\"", "m", "a", "r", "k", "e", "t", "L", "i", "m", "i", "t", "\"", ":", "n", "u", "l", "l", "}">>}

StorageModes == {"ok", "full", "denied"}

StoreInit ==
    /\ hasWindow \in BOOLEAN
    /\ storageMode \in StorageModes
    /\ localStorage \in
        {[k \in {WatchlistKey, PreferencesKey} |->
            IF k = WatchlistKey THEN w ELSE p] :
                w \in {JsNull} \cup {String(t) : t \in WatchlistTexts},
                p \in {JsNull} \cup {String(t) : t \in PreferencesTexts}}
    /\ storageMode = "denied" =>
        localStorage = [k \in {WatchlistKey, PreferencesKey} |-> JsNull]
    /\ returned = NoValue
    /\ lastPrefs = NoValue
    /\ EngineIdle
    /\ RouteIdle
    /\ PageIdle
    /\ ScannerIdle
    /\ LoaderIdle

StoreNext ==
    \/ CallLoadWatchlist
    \/ CallSaveWatchlist
    \/ CallLoadPreferences
    \/ CallSavePreferences
    \/ CallResetPreferences

StoreSpec == StoreInit /\ [][StoreNext]_vars

-----------------------------------------------------------------------------
(* The watchlist of the Page component: state `watchIds`, the effect that  *)
(* loads it and the effect that saves it (app/page.js).                    *)

\* new Set(items): the distinct values in the order of their first occurrence
RECURSIVE NewSet(_, _, _)
NewSet(items, i, acc) ==
    IF i > Len(items) THEN acc
    ELSE IF \E k \in 1..Len(acc) : acc[k] = items[i]
    THEN NewSet(items, i + 1, acc)
    ELSE NewSet(items, i + 1, Append(acc, items[i]))

\* the updater of toggleWatch(id): (prev) => next
Toggled(prev, id) ==
    IF \E k \in 1..Len(prev) : prev[k] = id
    THEN SelectSeq(prev, LAMBDA x : x # id)
    ELSE Append(prev, id)

\* the state after the queued setWatchIds calls, in order
RECURSIVE ApplyUpdates(_, _, _)
ApplyUpdates(state, updates, i) ==
    IF i > Len(updates) THEN state
    ELSE ApplyUpdates(IF updates[i].kind = "value" THEN updates[i].arg
                      ELSE Toggled(state, updates[i].arg),
                      updates, i + 1)

\* first render: useState(() => new Set()), and both effects are scheduled
Mount ==
    /\ ~mounted
    /\ mounted' = TRUE
    /\ watchIds' = <<>>
    /\ effects' = <<"loadWatchlist", "saveWatchlist">>
    /\ writes' = <<localStorage[WatchlistKey]>>
    /\ UNCHANGED <<queued, toggled, storeVars, engineVars, routeVars, scannerVars, loaderVars>>

\* useEffect(() => { const ids = loadWatchlist(); setWatchIds(new Set(ids)) }, [])
EffectLoad ==
    /\ effects # <<>>
    /\ Head(effects) = "loadWatchlist"
    /\ queued' = Append(queued, [kind |-> "value", arg |-> NewSet(loadWatchlist.items, 1, <<>>)])
    /\ effects' = Tail(effects)
    /\ UNCHANGED <<mounted, watchIds, writes, toggled, storeVars, engineVars, routeVars, scannerVars, loaderVars>>

\* useEffect(() => { saveWatchlist(Array.from(watchIds)) }, [watchIds])
EffectSave ==
    /\ effects # <<>>
    /\ Head(effects) = "saveWatchlist"
    /\ LET r == saveWatchlist(JsArray(watchIds)) IN
        /\ localStorage' = r.items
        /\ writes' = IF ~toggled /\ hasWindow /\ storageMode = "ok"
                     THEN Append(writes, r.items[WatchlistKey])
                     ELSE writes
    /\ effects' = Tail(effects)
    /\ UNCHANGED <<mounted, watchIds, queued, toggled>>
    /\ UNCHANGED <<hasWindow, storageMode, returned, lastPrefs, engineVars, routeVars, scannerVars, loaderVars>>

\* the render after setWatchIds: the new Set is a new object, so the
\* dependency [watchIds] has changed and the save effect is scheduled
Render ==
    /\ mounted
    /\ effects = <<>>
    /\ queued # <<>>
    /\ watchIds' = ApplyUpdates(watchIds, queued, 1)
    /\ queued' = <<>>
    /\ effects' = <<"saveWatchlist">>
    /\ UNCHANGED <<mounted, writes, toggled, storeVars, engineVars, routeVars, scannerVars, loaderVars>>

\* the ids of the rows the user can star
CoinIds ==
    {String(<<"b", "t", "c">>), String(<<"e", "t", "h">>), String(<<"s", "o", "l">>)}

MaxQueued == 2

\* onClick={() => toggleWatch(c.id)}
toggleWatch ==
    /\ mounted
    /\ effects = <<>>
    /\ Len(queued) < MaxQueued
    /\ \E id \in CoinIds : queued' = Append(queued, [kind |-> "toggle", arg |-> id])
    /\ toggled' = TRUE
    /\ UNCHANGED <<mounted, watchIds, effects, writes, storeVars, engineVars, routeVars, scannerVars, loaderVars>>

\* the watchlists an earlier visit has saved
SavedWatchlists ==
    {<<"[", "\"", "b", "t", "c", "\"", ",", "\"", "e", "t", "h", "\"", "]">>,
     <<"[", "\"", "b", "t", "c", "\"", "]">>,
     <<"[", "]">>,
     <<"[", "\"", "e", "t", "h", "\"", ",", "\"", "b", "t", "c", "\"", "]">>,
     <<"[", "\"", "s", "o", "l", "\"", "]">>,
     <<"[", "\"", "b", "t", "c", "\"", ",", "\"", "e", "t", "h", "\"", ",", "\"", "s", "o", "l", "\"", "]">>}

PageInit ==
    /\ hasWindow = TRUE
    /\ storageMode \in {"ok", "full"}
    /\ localStorage \in
        {[k \in {WatchlistKey, PreferencesKey} |->
            IF k = WatchlistKey THEN w ELSE JsNull] :
                w \in {JsNull} \cup {String(t) : t \in SavedWatchlists}}
    /\ returned = NoValue
    /\ lastPrefs = NoValue
    /\ PageIdle
    /\ EngineIdle
    /\ RouteIdle
    /\ ScannerIdle
    /\ LoaderIdle

PageNext == Mount \/ EffectLoad \/ EffectSave \/ Render \/ toggleWatch

PageSpec == PageInit /\ [][PageNext]_vars

-----------------------------------------------------------------------------
(* app/page.js, the alert scanner: symbols are plain strings, rates are    *)
(* the decimal strings of the exchange-rate feed, and every Number is a    *)
(* binary64 value.                                                         *)

\* one product of the product list
Product(base, quote, state) ==
    [base_currency |-> base, quote_currency |-> quote, status |-> state]

\* array.slice(0, n)
SliceTo(items, n) == SubSeq(items, 1, IF Len(items) < n THEN Len(items) ELSE n)

\* array.slice(-n)
SliceLast(items, n) ==
    SubSeq(items, IF Len(items) > n THEN Len(items) - n + 1 ELSE 1, Len(items))

\* lines 23-32: the symbols that setSymbols receives
loadCoinbaseAltcoins(products) ==
    LET kept == SelectSeq(products, LAMBDA p :
                    /\ p.quote_currency = "USD"
                    /\ p.status = "online"
                    /\ p.base_currency \notin {"BTC", "ETH", "USDT", "USDC"})
        bases == [i \in 1..Len(kept) |-> kept[i].base_currency]
    IN  SliceTo(NewSet(bases, 1, <<>>), 150)

ALERT_SCORE_THRESHOLD == FromDecimal(25, 10)

\* line 47: 1 / rate, the rate a numeric string
priceOf(rate) == FQuotient(N(1), StringToNumber(rate.chars).value)

\* line 49
changeOf(price, prev) ==
    IF prev = Undefined \/ IsZero(prev) THEN Zero
    ELSE FMul(FQuotient(FSub(price, prev), prev), N(100))

\* a.reduce((x, y) => x + y, 0)
RECURSIVE SumFrom(_, _, _)
SumFrom(a, i, acc) ==
    IF i > Len(a) THEN acc ELSE SumFrom(a, i + 1, FAdd(acc, a[i]))

\* line 57
avg(a) == FQuotient(SumFrom(a, 1, Zero), N(IF Len(a) = 0 THEN 1 ELSE Len(a)))

\* Math.max(...h) and Math.min(...h) of a nonempty h
RECURSIVE MaxFrom(_, _, _)
MaxFrom(h, i, acc) ==
    IF i > Len(h) THEN acc ELSE MaxFrom(h, i + 1, MathMax(acc, h[i]))

RECURSIVE MinFrom(_, _, _)
MinFrom(h, i, acc) ==
    IF i > Len(h) THEN acc ELSE MinFrom(h, i + 1, MathMin(acc, h[i]))

\* lines 63-66
confirmation(m1, m5, m15) ==
    (IF FLt(Zero, m1) THEN 1 ELSE -1)
    + (IF FLt(Zero, m5) THEN 1 ELSE -1)
    + (IF FLt(FNeg(FromDecimal(2, 10)), m15) THEN 1 ELSE -1)

\* lines 68-75
scoreOf(h, m1, m5, m15) ==
    LET volatility == FSub(MaxFrom(h, 2, h[1]), MinFrom(h, 2, h[1]))
    IN  FSub(FAdd(FAdd(FAdd(FMul(m1, N(2)), FMul(m5, FromDecimal(15, 10))), m15),
                  FMul(N(confirmation(m1, m5, m15)), FromDecimal(75, 100))),
             FMul(volatility, FromDecimal(25, 100)))

\* lines 80-83: the conditions on the momentum of a symbol
MeetsConditions(m1, m5, m15, score) ==
    /\ FLt(Zero, m1)
    /\ FLt(Zero, m5)
    /\ FLt(FNeg(FromDecimal(2, 10)), m15)
    /\ FLe(ALERT_SCORE_THRESHOLD, score)

\* lines 51-54: the history of a symbol after the tick
historyOf(h, price, prev) == SliceLast(Append(h, changeOf(price, prev)), 15)

\* lines 56-83 and 92-100: the entry of newScores for a symbol, in the
\* closure `self` of the render that created fetchPrices
entryOf(self, symbol, price, h) ==
    LET m1  == h[Len(h)]
        m5  == avg(SliceLast(h, 5))
        m15 == avg(SliceLast(h, 15))
        score == scoreOf(h, m1, m5, m15)
    IN  [symbol |-> symbol, price |-> price, m1 |-> m1, m5 |-> m5, m15 |-> m15,
         score |-> score,
         isAlert |-> /\ self.audioReady
                     /\ self.alertsEnabled
                     /\ MeetsConditions(m1, m5, m15, score)]

\* line 85 with the flag ignored
playsAlways(isAlert, flagged) == isAlert

\* line 85: the sound is played
playsSound(isAlert, flagged) == isAlert /\ ~flagged

\* the first render: loadCoinbaseAltcoins() is called; symbols is empty, so
\* the effect on [symbols] returns at once
ScannerMount ==
    /\ scanPc = "unmounted"
    /\ scanPc' = "products"
    /\ UNCHANGED <<symbols, scores, alertsEnabled, audioReady, previousPrices,
                   history, alerted, interval, ticks, plays, calm>>
    /\ UNCHANGED <<engineVars, routeVars, storeVars, pageVars, loaderVars>>

\* the product lists of the exchange
ProductFeeds ==
    {<<Product("BTC", "USD", "online"), Product("SOL", "USD", "online"),
       Product("ADA", "EUR", "online"), Product("ADA", "USD", "offline")>>,
     <<Product("SOL", "USD", "online"), Product("ETH", "USD", "online"),
       Product("ADA", "USD", "online"), Product("SOL", "USD", "online")>>,
     <<Product("BTC", "USD", "online"), Product("USDT", "USD", "online")>>}

\* the product list arrives: setSymbols, the render, and the effect on
\* [symbols], which calls fetchPrices and hands it to setInterval, both as
\* created by this render
ProductsArrive ==
    /\ scanPc = "products"
    /\ \E products \in ProductFeeds :
        /\ symbols' = loadCoinbaseAltcoins(products)
        /\ interval' = IF symbols' = <<>> THEN NoValue
                       ELSE [symbols |-> symbols', audioReady |-> audioReady,
                             alertsEnabled |-> alertsEnabled]
    /\ scanPc' = "ready"
    /\ UNCHANGED <<scores, alertsEnabled, audioReady, previousPrices, history,
                   alerted, ticks, plays, calm>>
    /\ UNCHANGED <<engineVars, routeVars, storeVars, pageVars, loaderVars>>

\* the product request fails: the promise of loadCoinbaseAltcoins rejects
ProductsFail ==
    /\ scanPc = "products"
    /\ scanPc' = "failed"
    /\ UNCHANGED <<symbols, scores, alertsEnabled, audioReady, previousPrices,
                   history, alerted, interval, ticks, plays, calm>>
    /\ UNCHANGED <<engineVars, routeVars, storeVars, pageVars, loaderVars>>

\* lines 141-160: the button, rendered while audioReady is false; the render
\* that follows leaves the effect on [symbols] alone
EnableSoundAlerts ==
    /\ scanPc # "unmounted"
    /\ ~audioReady
    /\ audioReady' = TRUE
    /\ alertsEnabled' = TRUE
    /\ UNCHANGED <<scanPc, symbols, scores, previousPrices, history, alerted,
                   interval, ticks, plays, calm>>
    /\ UNCHANGED <<engineVars, routeVars, storeVars, pageVars, loaderVars>>

Rates(sol, ada) == [s \in Tickers |-> IF s = "SOL" THEN sol ELSE ada]

\* data.data.rates of the exchange-rate feed at successive ticks
Snapshots ==
    {Rates(String(<<"0", ".", "0", "1", "0", "0">>), String(<<"0", ".", "5">>)),
     Rates(String(<<"0", ".", "0", "0", "9", "2">>), String(<<"0", ".", "4">>)),
     Rates(String(<<"0", ".", "0", "0", "9", "9">>), Undefined),
     Rates(Undefined, String(<<"0", ".", "5">>))}

MaxTicks == 4

\* lines 35-108: a call of fetchPrices by the timer settles
fetchPrices ==
    /\ interval # NoValue
    /\ ticks < MaxTicks
    /\ ticks' = ticks + 1
    /\ \E data \in Snapshots :
        LET seen == {s \in Tickers :
                        /\ \E i \in 1..Len(interval.symbols) : interval.symbols[i] = s
                        /\ Truthy(data[s])}
        IN  /\ history' = [s \in Tickers |->
                    IF s \in seen
                    THEN historyOf(history[s], priceOf(data[s]), previousPrices[s])
                    ELSE history[s]]
            /\ scores' = [s \in Tickers |->
                    IF s \in seen
                    THEN entryOf(interval, s, priceOf(data[s]), history'[s])
                    ELSE Undefined]
            /\ plays' = [s \in Tickers |->
                    IF s \in seen /\ playsSound(scores'[s].isAlert, alerted[s])
                    THEN plays[s] + 1 ELSE plays[s]]
            /\ alerted' = [s \in Tickers |->
                    IF s \in seen THEN scores'[s].isAlert ELSE alerted[s]]
            /\ calm' = [s \in Tickers |->
                    IF s \notin seen THEN calm[s]
                    ELSE IF playsSound(scores'[s].isAlert, alerted[s]) THEN FALSE
                    ELSE IF ~scores'[s].isAlert THEN TRUE
                    ELSE calm[s]]
            /\ previousPrices' = [s \in Tickers |->
                    IF s \in seen THEN scores'[s].price ELSE Undefined]
    /\ UNCHANGED <<scanPc, symbols, alertsEnabled, audioReady, interval>>
    /\ UNCHANGED <<engineVars, routeVars, storeVars, pageVars, loaderVars>>

\* the request of a tick fails, or its body has no data.rates: the promise
\* of fetchPrices rejects before anything is written
fetchPricesFails ==
    /\ interval # NoValue
    /\ ticks < MaxTicks
    /\ ticks' = ticks + 1
    /\ UNCHANGED <<scanPc, symbols, scores, alertsEnabled, audioReady,
                   previousPrices, history, alerted, interval, plays, calm>>
    /\ UNCHANGED <<engineVars, routeVars, storeVars, pageVars, loaderVars>>

ScannerInit ==
    /\ ScannerIdle
    /\ EngineIdle
    /\ RouteIdle
    /\ StoreIdle
    /\ PageIdle
    /\ LoaderIdle

ScannerNext ==
    \/ ScannerMount
    \/ ProductsArrive
    \/ ProductsFail
    \/ EnableSoundAlerts
    \/ fetchPrices
    \/ fetchPricesFails

ScannerSpec == ScannerInit /\ [][ScannerNext]_vars

-----------------------------------------------------------------------------
(* The dashboard's load(): app/page.js lines 1321-1362 and the Page of     *)
(* part_000 lines 100-129.  State set by a call is the state of the next   *)
(* render; the calls suspended at an await are in `pending`.               *)

\* line 1322 without the guard
blockedNever(flag) == FALSE

\* line 1322: if (inFlightRef.current) return
blocked(flag) == flag

CouldNotLoad == "Could not load data. Try refreshing in a moment."
FailedToLoad == "Failed to load data."

\* what the page shows when a call starts
Shown == [coins |-> pageCoins, fetchedAt |-> fetchedAt, error |-> loadStatus.error]

\* a load call suspended at `await fetch(...)`
AtFetch(showSpinner) ==
    [showSpinner |-> showSpinner, at |-> "fetch", res |-> NoValue, before |-> Shown]

MaxCalls == 4

\* lines 1322-1332 (part_000 101-106): load up to its first await
load(showSpinner) ==
    /\ calls < MaxCalls
    /\ calls' = calls + 1
    /\ IF blocked(inFlightRef)
       THEN UNCHANGED <<inFlightRef, loadStatus, isRefreshing, pending>>
       ELSE /\ inFlightRef' = TRUE
            /\ loadStatus' =
                IF showSpinner THEN [loading |-> TRUE, error |-> ""]
                ELSE IF loadVersion = "page.js" THEN [loadStatus EXCEPT !.error = ""]
                ELSE loadStatus
            /\ isRefreshing' = IF showSpinner THEN isRefreshing ELSE TRUE
            /\ pending' = Append(pending, AtFetch(showSpinner))
    /\ UNCHANGED <<loadVersion, pageCoins, fetchedAt, loadsDone, lastLoad>>
    /\ UNCHANGED <<engineVars, routeVars, storeVars, pageVars, scannerVars>>

\* lines 1353-1362: the mount effects call load({ showSpinner: true }) and
\* start the interval
MountLoad ==
    /\ ~loaderMounted
    /\ loaderMounted' = TRUE
    /\ load(TRUE)

\* part_000 lines 122-124: the effect on [marketLimit] runs again after the
\* stored preference has replaced the limit
MarketLimitLoad ==
    /\ loaderMounted
    /\ loadVersion = "part_000"
    /\ UNCHANGED loaderMounted
    /\ load(TRUE)

\* line 1359: a tick of the interval
IntervalLoad ==
    /\ loaderMounted
    /\ UNCHANGED loaderMounted
    /\ load(FALSE)

\* line 1555 (part_000 200): the Refresh button, disabled in app/page.js
\* while isRefreshing or status.loading
RefreshClick ==
    /\ loaderMounted
    /\ loadVersion = "page.js" => ~(isRefreshing \/ loadStatus.loading)
    /\ UNCHANGED loaderMounted
    /\ load(FALSE)

\* the sequence without its i-th element
Without(seq, i) == SubSeq(seq, 1, i - 1) \o SubSeq(seq, i + 1, Len(seq))

\* lines 1342-1350 (part_000 114-119): catch and finally
loadFails(i) ==
    /\ loadStatus' =
        IF loadVersion = "page.js"
        THEN [loading |-> FALSE,
              error |-> IF pending[i].showSpinner THEN CouldNotLoad ELSE loadStatus.error]
        ELSE [loading |-> FALSE, error |-> FailedToLoad]
    /\ isRefreshing' = FALSE
    /\ inFlightRef' = FALSE
    /\ pending' = Without(pending, i)
    /\ loadsDone' = loadsDone + 1
    /\ lastLoad' = [showSpinner |-> pending[i].showSpinner, failed |-> TRUE,
                    before |-> pending[i].before]
    /\ UNCHANGED <<pageCoins, fetchedAt>>

\* json?.data and json?.fetchedAt (part_000: json.data, which throws on null)
DataOf(json) == IF json = JsNull THEN Undefined ELSE json.data
FetchedAtOf(json) == IF json = JsNull THEN Undefined ELSE json.fetchedAt

\* lines 1337-1341 (part_000 110-113) and finally
loadSucceeds(i, json) ==
    /\ pageCoins' =
        IF loadVersion = "page.js"
        THEN (IF DataOf(json).kind = "array" THEN DataOf(json).items ELSE <<>>)
        ELSE (IF Truthy(DataOf(json)) THEN DataOf(json).items ELSE <<>>)
    /\ fetchedAt' =
        IF loadVersion = "page.js"
        THEN (IF Truthy(FetchedAtOf(json)) THEN FetchedAtOf(json) ELSE String(<<>>))
        ELSE FetchedAtOf(json)
    /\ loadStatus' = [loading |-> FALSE, error |-> ""]
    /\ isRefreshing' = FALSE
    /\ inFlightRef' = FALSE
    /\ pending' = Without(pending, i)
    /\ loadsDone' = loadsDone + 1
    /\ lastLoad' = [showSpinner |-> pending[i].showSpinner, failed |-> FALSE,
                    before |-> pending[i].before]

\* a body of /api/markets
Body(data, at) == [kind |-> "object", data |-> data, fetchedAt |-> at]

\* the bodies the route can send, the JSON text `null`, and a body that is
\* not JSON
MarketBodies ==
    {Body(JsArray(<<"btc">>), String(<<"T", "1">>)),
     Body(JsArray(<<"btc", "eth">>), String(<<"T", "2">>)),
     Body(Undefined, Undefined),
     JsNull,
     Thrown}

\* the responses of /api/markets
MarketResponses ==
    {[ok |-> TRUE, body |-> b] : b \in MarketBodies}
    \cup {[ok |-> FALSE, body |-> Body(Undefined, Undefined)],
          [ok |-> FALSE, body |-> Thrown]}

\* `await fetch(...)` settles: it rejects, or it resolves and line 1335
\* tests res.ok (part_000 does not)
MarketsFetchSettles ==
    /\ \E i \in 1..Len(pending) :
        /\ pending[i].at = "fetch"
        /\ \/ /\ loadFails(i)
              /\ UNCHANGED <<loadVersion, loaderMounted, calls>>
           \/ \E res \in MarketResponses :
                IF loadVersion = "page.js" /\ ~res.ok
                THEN /\ loadFails(i)
                     /\ UNCHANGED <<loadVersion, loaderMounted, calls>>
                ELSE /\ pending' = [pending EXCEPT ![i].at = "json", ![i].res = res]
                     /\ UNCHANGED <<loadVersion, loaderMounted, pageCoins, loadStatus,
                                    fetchedAt, isRefreshing, inFlightRef, calls,
                                    loadsDone, lastLoad>>
    /\ UNCHANGED <<engineVars, routeVars, storeVars, pageVars, scannerVars>>

\* `await res.json()` settles: it rejects on a body that is not JSON
\* (part_000: json.data throws on null), or the rest of the try block runs
MarketsJsonSettles ==
    /\ \E i \in 1..Len(pending) :
        /\ pending[i].at = "json"
        /\ IF \/ pending[i].res.body = Thrown
              \/ (loadVersion = "part_000" /\ pending[i].res.body = JsNull)
           THEN loadFails(i)
           ELSE loadSucceeds(i, pending[i].res.body)
    /\ UNCHANGED <<loadVersion, loaderMounted, calls>>
    /\ UNCHANGED <<engineVars, routeVars, storeVars, pageVars, scannerVars>>

LoaderInit ==
    /\ loadVersion \in {"page.js", "part_000"}
    /\ loaderMounted = FALSE
    /\ pageCoins = <<>>
    /\ loadStatus = [loading |-> TRUE, error |-> ""]
    /\ fetchedAt = String(<<>>)
    /\ isRefreshing = FALSE
    /\ inFlightRef = FALSE
    /\ pending = <<>>
    /\ calls = 0
    /\ loadsDone = 0
    /\ lastLoad = NoValue
    /\ EngineIdle
    /\ RouteIdle
    /\ StoreIdle
    /\ PageIdle
    /\ ScannerIdle

LoaderNext ==
    \/ MountLoad
    \/ MarketLimitLoad
    \/ IntervalLoad
    \/ RefreshClick
    \/ MarketsFetchSettles
    \/ MarketsJsonSettles

LoaderSpec == LoaderInit /\ [][LoaderNext]_vars

\* every fetch and every res.json() settles
LoaderFairSpec ==
    LoaderSpec /\ WF_vars(MarketsFetchSettles) /\ WF_vars(MarketsJsonSettles)

-----------------------------------------------------------------------------
(* Reference values, in exact integer arithmetic on whole percentages.     *)

\* the whole number an integer-valued Number stands for
WholeOf(x) == IF x.neg THEN -RoundHalfUpMagnitude(x, 1) ELSE RoundHalfUpMagnitude(x, 1)

\* the whole percentage a field stands for
Pct(v) == IF v = Null THEN 0 ELSE WholeOf(v.value)

P24(c) == Pct(c.price_change_percentage_24h_in_currency)
P7(c)  == Pct(c.price_change_percentage_7d_in_currency)
P30(c) == Pct(c.price_change_percentage_30d_in_currency)

IntAbs(k) == IF k < 0 THEN -k ELSE k
IntClamp(k, lo, hi) == IF k < lo THEN lo ELSE IF k > hi THEN hi ELSE k

\* |c24 - c7|
Proxy(c) == IntAbs(P24(c) - P7(c))

\* 100 * (50 + 1.2*(0.45*n7 + 0.35*n24 + 0.20*n30/1.5) - 0.25*clamp(proxy,0,40))
Scaled100(c24, c7, c30) ==
    5000 + 54 * IntClamp(c7, -30, 30) + 42 * IntClamp(c24, -20, 20)
         + 16 * IntClamp(c30, -50, 50) - 25 * IntClamp(IntAbs(c24 - c7), 0, 40)

\* round(clamp(scaled, 0, 100)), halves rounded up
RefScore(c24, c7, c30) == (IntClamp(Scaled100(c24, c7, c30), 0, 10000) + 50) \div 100

-----------------------------------------------------------------------------
(* Claims.                                                                 *)

\* C1: for every asset record whose change fields are numbers of any
\* magnitude or absent, the score returned by computeMomentumBreakdown is an
\* integer between 0 and 100.
ScoreBounded ==
    \A i \in 1..Len(enriched) : enriched[i].breakdown.score \in 0..100

\* C1 witness: an asset with a 7-day change far outside the clamping range
\* has been scored.
ScoreBoundedWitness ==
    \E i \in 1..Len(enriched) :
        /\ P7(enriched[i].coin) = Huge
        /\ P30(enriched[i].coin) = -Huge
        /\ enriched[i].breakdown.score \in 0..100

\* C2: for every (c24, c7, c30) the score equals the reference value
\* round(clamp(50 + 1.2*(0.45*n7 + 0.35*n24 + 0.20*n30/1.5) - 0.25*penalty
\* proxy, 0, 100)) with halves rounded up.
ScoreEqualsReference ==
    \A i \in 1..Len(enriched) :
        enriched[i].breakdown.score
            = RefScore(P24(enriched[i].coin), P7(enriched[i].coin), P30(enriched[i].coin))

RefAligned(c24, c7) == (c24 >= 0 /\ c7 >= 0) \/ (c24 <= 0 /\ c7 <= 0)

RuleHigh(score, c24, c7, proxy) == score >= 70 /\ RefAligned(c24, c7) /\ proxy <= 12

RuleMedium(score, c24, c7, proxy) == score >= 55 /\ (RefAligned(c24, c7) \/ proxy <= 18)

Classified == confResult # NoConfidence

ArgScore == confArg.score
Arg24 == WholeOf(confArg.inputs.c24)
Arg7 == WholeOf(confArg.inputs.c7)
ArgProxy == WholeOf(confArg.inputs.volatilityProxy)

\* C3: computeConfidence returns exactly one of the three labels: High iff
\* score >= 70 and aligned and proxy <= 12; Medium iff not High and
\* score >= 55 and (aligned or proxy <= 18); Low in every remaining case.
ConfidenceFirstMatch ==
    Classified =>
        /\ confResult.label \in {"High", "Medium", "Low"}
        /\ confResult.label = "High" <=> RuleHigh(ArgScore, Arg24, Arg7, ArgProxy)
        /\ confResult.label = "Medium" <=>
               (~RuleHigh(ArgScore, Arg24, Arg7, ArgProxy)
                /\ RuleMedium(ArgScore, Arg24, Arg7, ArgProxy))
        /\ confResult.label = "Low" <=>
               (~RuleHigh(ArgScore, Arg24, Arg7, ArgProxy)
                /\ ~RuleMedium(ArgScore, Arg24, Arg7, ArgProxy))

\* C3 witness: a breakdown that satisfies both the High and the Medium rule
\* has been classified, and the first rule won.
ConfidenceFirstMatchWitness ==
    /\ Classified
    /\ RuleHigh(ArgScore, Arg24, Arg7, ArgProxy)
    /\ RuleMedium(ArgScore, Arg24, Arg7, ArgProxy)
    /\ confResult.label = "High"

\* C4: computeConfidence never returns High for a breakdown whose score is
\* below 70, whatever c24, c7 and the proxy are.
HighNeedsScore70 ==
    (Classified /\ ArgScore < 70) => confResult.label # "High"

\* C4 witness: a breakdown with score 69, aligned signals and a proxy of at
\* most 12 has been classified, and the label is not High.
HighNeedsScore70Witness ==
    /\ Classified
    /\ ArgScore = 69
    /\ RefAligned(Arg24, Arg7)
    /\ ArgProxy <= 12
    /\ confResult.label = "Medium"

SameInputs(c, d) == P24(c) = P24(d) /\ P7(c) = P7(d) /\ P30(c) = P30(d)

In24(c) == c.price_change_percentage_24h_in_currency.value
In7(c)  == c.price_change_percentage_7d_in_currency.value
In30(c) == c.price_change_percentage_30d_in_currency.value

\* the score the engine gives to the Numbers c24, c7, c30
ScoreAt(c24, c7, c30) == ScoreOf(c24, c7, c30, MathAbs(FSub(c24, c7)))

\* C6: with c24 and c30 fixed, for c7 <= c7' both inside [-30, 30] the score
\* at c7 is at most the score at c7' (stated for c7' the next Number above
\* c7, from which it follows for any two Numbers by transitivity).
MonotoneIn7 ==
    \A i \in 1..Len(enriched) :
        LET c  == enriched[i].coin
            up == StepUlps(In7(c), 1)
        IN  (FLe(N(-30), In7(c)) /\ FLe(up, N(30))) =>
                enriched[i].breakdown.score <= ScoreAt(In24(c), up, In30(c))

\* C6 on whole percentages, where it holds: a step of one percentage point
\* of c7 inside [-30, 30] does not lower the score.
MonotoneIn7Whole ==
    \A i \in 1..Len(enriched) :
        LET c == enriched[i].coin IN
        (P7(c) >= -30 /\ P7(c) + 1 <= 30) =>
            enriched[i].breakdown.score <= ScoreAt(N(P24(c)), N(P7(c) + 1), N(P30(c)))

Texts7 ==
    {"Strong 7-day trend (%) is supporting momentum.",
     "Weak 7-day trend (%) is dragging momentum.",
     "7-day trend is mild (%), so momentum is less decisive."}
Texts24 ==
    {"Recent 24h move is positive (%) and adds short-term strength.",
     "Recent 24h move is negative (%) and adds short-term pressure.",
     "24h move is small (%), so the short-term signal is muted."}
Texts30 ==
    {"30-day uptrend (%) provides broader context.",
     "30-day downtrend (%) provides broader context.",
     "30-day change is modest (%), suggesting a steadier backdrop."}
TextsChop ==
    {"Signals are choppy (24h vs 7d differs by ~% pts), which reduces confidence.",
     "Signals are fairly consistent (24h vs 7d gap ~% pts)."}
TextsAlign ==
    {"Short-term and 7-day signals point in the same direction (better signal quality).",
     "Short-term and 7-day signals conflict (treat as a lower-quality setup)."}

\* C7: computeMomentumBreakdown returns exactly 5 drivers, in the order
\* 7-day trend, 24h move, 30-day context, choppiness, alignment.
FiveDrivers ==
    \A i \in 1..Len(enriched) :
        LET d == enriched[i].breakdown.drivers IN
        /\ Len(d) = 5
        /\ d[1].text \in Texts7
        /\ d[2].text \in Texts24
        /\ d[3].text \in Texts30
        /\ d[4].text \in TextsChop
        /\ d[5].text \in TextsAlign

\* C7 witness: an asset with a modest 30-day change and conflicting signals
\* has been scored and has its five drivers.
FiveDriversWitness ==
    \E i \in 1..Len(enriched) :
        LET d == enriched[i].breakdown.drivers IN
        /\ IntAbs(P30(enriched[i].coin)) < 15
        /\ ~RefAligned(P24(enriched[i].coin), P7(enriched[i].coin))
        /\ Len(d) = 5
        /\ d[3].text = "30-day change is modest (%), suggesting a steadier backdrop."
        /\ d[5].text = "Short-term and 7-day signals conflict (treat as a lower-quality setup)."

\* the four guards of whatWouldChange
Guard7(c) == P7(c) < 5
Guard24(c) == P24(c) < 3
GuardChop(c) == Proxy(c) > 12
Guard30(c) == P30(c) < 0
AnyGuard(c) == Guard7(c) \/ Guard24(c) \/ GuardChop(c) \/ Guard30(c)

\* C8: whatWouldChange has between 1 and 4 entries; it is the single
\* fallback sentence iff all four guards are false, and otherwise it contains
\* no fallback sentence.
FallbackIffNoGuard ==
    \A i \in 1..Len(enriched) :
        LET w == enriched[i].breakdown.whatWouldChange
            c == enriched[i].coin
        IN  /\ Len(w) \in 1..4
            /\ w = <<Fallback>> <=> ~AnyGuard(c)
            /\ AnyGuard(c) => \A k \in 1..Len(w) : w[k] # Fallback

\* C8 witness: an asset for which no guard holds has been scored and got the
\* fallback sentence.
FallbackIffNoGuardWitness ==
    \E i \in 1..Len(enriched) :
        /\ ~AnyGuard(enriched[i].coin)
        /\ enriched[i].breakdown.whatWouldChange = <<Fallback>>

HasNull(c) ==
    \/ c.price_change_percentage_24h_in_currency = Null
    \/ c.price_change_percentage_7d_in_currency = Null
    \/ c.price_change_percentage_30d_in_currency = Null

\* the record with every missing change field set to the number 0
ZeroFilled(c) == Coin(Num(P24(c)), Num(P7(c)), Num(P30(c)))

\* C9: a change field that is absent or null is treated exactly as 0: the
\* breakdown and the confidence of a record with a missing field equal those
\* of the same record with that field set to 0, and the empty record gets
\* score 50 and confidence Low.
MissingIsZero ==
    \A i \in 1..Len(enriched) :
        LET c == enriched[i].coin IN
        /\ HasNull(c) =>
              /\ enriched[i].breakdown = computeMomentumBreakdown(ZeroFilled(c))
              /\ enriched[i].confidence
                     = computeConfidence(computeMomentumBreakdown(ZeroFilled(c)))
              /\ enriched[i].breakdown.score = RefScore(P24(c), P7(c), P30(c))
        /\ c = Coin(Null, Null, Null) =>
              /\ enriched[i].breakdown.score = 50
              /\ enriched[i].confidence.label = "Low"

\* C9 witness: the empty record has been scored, with score 50 and Low.
MissingIsZeroWitness ==
    \E i \in 1..Len(enriched) :
        /\ enriched[i].coin = Coin(Null, Null, Null)
        /\ enriched[i].breakdown.score = 50
        /\ enriched[i].confidence.label = "Low"

Denotes50 == {<<"5", "0">>, <<"5", "0", ".", "0">>, <<"5", "e", "1">>, <<"0", "x", "3", "2">>}
Denotes100 == {<<"1", "0", "0">>, <<"+", "1", "0", "0">>}
Denotes250 == {<<"2", "5", "0">>, <<" ", "2", "5", "0">>, <<"2", "5", "0", "0", "e", "-", "1">>}

ExpectedPerPage(raw) ==
    IF raw = NullParam THEN <<"1", "0", "0">>
    ELSE IF raw.chars \in Denotes50 THEN <<"5", "0">>
    ELSE IF raw.chars \in Denotes250 THEN <<"2", "5", "0">>
    ELSE <<"1", "0", "0">>

\* C11: every upstream request of the markets route carries per_page 50, 100
\* or 250: a per_page value of 50, 100 or 250 is passed through, and a
\* missing, non-numeric or other numeric value gives 100.
PerPageClamped ==
    upstreamCall # NoValue =>
        /\ upstreamCall.per_page \in {<<"5", "0">>, <<"1", "0", "0">>, <<"2", "5", "0">>}
        /\ upstreamCall.per_page = ExpectedPerPage(req.per_page)

PerPageClampedWitness ==
    /\ upstreamCall # NoValue
    /\ req.per_page = String(<<"2", "5", "0">>)
    /\ upstreamCall.per_page = <<"2", "5", "0">>

PerPageDefaultWitness ==
    /\ upstreamCall # NoValue
    /\ req.per_page = String(<<"2", "5", "1">>)
    /\ upstreamCall.per_page = <<"1", "0", "0">>

\* the upstream answered with an OK status and a body that is JSON text
UpstreamGood ==
    /\ req.urlParses
    /\ upstreamRes # NoValue
    /\ upstreamRes.kind = "response"
    /\ upstreamRes.status \in 200..299
    /\ upstreamRes.json.parses

\* C12: GET of the markets route never throws: it returns status 200 with a
\* body holding data and fetchedAt when the upstream response is OK, and
\* status 502 with an error body in every other case.
GetAlwaysResponds ==
    /\ response # Thrown
    /\ routePc = "done" =>
        /\ response.kind = "response"
        /\ IF UpstreamGood
           THEN /\ response.status = 200
                /\ {"data", "fetchedAt"} \subseteq DOMAIN response.body
                /\ response.body.data = upstreamRes.json.data
           ELSE /\ response.status = 502
                /\ DOMAIN response.body = {"error"}

GetAlwaysRespondsWitness ==
    /\ routePc = "done"
    /\ upstreamRes # NoValue
    /\ upstreamRes.kind = "response"
    /\ upstreamRes.status = 200
    /\ ~upstreamRes.json.parses
    /\ response.status = 502

\* what each text under the watchlist key stands for: the array it holds
\* without its falsy entries, or the empty array when it is no JSON array
WatchlistMeaning ==
    {<<<<"[", "\"", "b", "t", "c", "\"", ",", "\"", "e", "t", "h", "\"", "]">>,
       JsArray(<<String(<<"b", "t", "c">>), String(<<"e", "t", "h">>)>>)>>,
     <<<<"[", "\"", "b", "t", "c", "\"", "]">>,
       JsArray(<<String(<<"b", "t", "c">>)>>)>>,
     <<<<"[", "]">>,
       JsArray(<<>>)>>,
     <<<<" ", "[", " ", "\"", "b", "t", "c", "\"", " ", ",", " ", "\"", "\"", " ", ",", " ", "n", "u", "l", "l", " ", ",", " ", "0", " ", ",", " ", "f", "a", "l", "s", "e", " ", ",", " ", "\"", "e", "t", "h", "\"", " ", "]", " ">>,
       JsArray(<<String(<<"b", "t", "c">>), String(<<"e", "t", "h">>)>>)>>,
     <<<<"[", "\"", "b", "t", "c", "\"", ",", "7", ",", "t", "r", "u", "e", ",", "[", "]", ",", "{", "}", "]">>,
       JsArray(<<String(<<"b", "t", "c">>), JsNumber(7), JsBoolean(TRUE), JsArray(<<>>), JsObject(<<>>)>>)>>,
     <<<<>>,
       JsArray(<<>>)>>,
     <<<<"[">>,
       EmptyArray>>,
     <<<<"[", "\"", "b", "t", "c", "\"", ",", "]">>,
       EmptyArray>>,
     <<<<"b", "t", "c">>,
       EmptyArray>>,
     <<<<"n", "u", "l", "l">>,
       EmptyArray>>,
     <<<<"{", "}">>,
       EmptyArray>>,
     <<<<"{", "\"", "0", "\"", ":", "\"", "b", "t", "c", "\"", "}">>,
       EmptyArray>>,
     <<<<"\"", "b", "t", "c", "\"">>,
       EmptyArray>>,
     <<<<"5">>,
       EmptyArray>>,
     <<<<"t", "r", "u", "e">>,
       EmptyArray>>,
     <<<<"[", "\"", "s", "o", "l", "\"", "]">>,
       JsArray(<<String(<<"s", "o", "l">>)>>)>>,
     <<<<"[", "\"", "s", "o", "l", "\"", ",", "\"", "b", "t", "c", "\"", "]">>,
       JsArray(<<String(<<"s", "o", "l">>), String(<<"b", "t", "c">>)>>)>>}

ExpectedWatchlist ==
    IF ~hasWindow \/ localStorage[WatchlistKey] = JsNull THEN EmptyArray
    ELSE (CHOOSE row \in WatchlistMeaning : row[1] = localStorage[WatchlistKey].chars)[2]

SaveFailsQuietlyWitness ==
    /\ returned # NoValue
    /\ returned.call = "saveWatchlist"
    /\ hasWindow
    /\ storageMode = "full"
    /\ returned.value = Undefined

\* an object as the set of its <<key, value>> pairs
Pairs(members) == {<<members[i].key, members[i].value>> : i \in 1..Len(members)}

Keys(pairs) == {pr[1] : pr \in pairs}

\* b laid over a: every pair of b, and the pairs of a whose key b lacks
Overlay(a, b) == {pr \in a : pr[1] \notin Keys(b)} \cup b

\* what each text under the preferences key stands for: an object with its
\* pairs, other JSON, or no JSON at all
PreferencesMeaning ==
    {<<<<>>,
       [is |-> "object", pairs |-> {}]>>,
     <<<<"{">>,
       [is |-> "invalid"]>>,
     <<<<"{", "\"", "m", "a", "r", "k", "e", "t", "L", "i", "m", "i", "t", "\"", ":", "5", "0", "}">>,
       [is |-> "object", pairs |-> {<<<<"m", "a", "r", "k", "e", "t", "L", "i", "m", "i", "t">>, JsNumber(50)>>}]>>,
     <<<<"{", "\"", "h", "i", "d", "e", "T", "o", "p", "3", "\"", ":", "t", "r", "u", "e", ",", "\"", "p", "a", "g", "e", "S", "i", "z", "e", "\"", ":", "5", "0", ",", "\"", "t", "h", "e", "m", "e", "\"", ":", "\"", "d", "a", "r", "k", "\"", "}">>,
       [is |-> "object", pairs |-> {<<<<"h", "i", "d", "e", "T", "o", "p", "3">>, JsBoolean(TRUE)>>, <<<<"p", "a", "g", "e", "S", "i", "z", "e">>, JsNumber(50)>>, <<<<"t", "h", "e", "m", "e">>, String(<<"d", "a", "r", "k">>)>>}]>>,
     <<<<"n", "u", "l", "l">>,
       [is |-> "other"]>>,
     <<<<"0">>,
       [is |-> "other"]>>,
     <<<<"[", "1", "0", "0", "]">>,
       [is |-> "other"]>>,
     <<<<"\"", "a", "b", "\"">>,
       [is |-> "other"]>>,
     <<<<"{", "}">>,
       [is |-> "object", pairs |-> {}]>>,
     <<<<"{", "\"", "m", "a", "r", "k", "e", "t", "L", "i", "m", "i", "t", "\"", ":", "n", "u", "l", "l", "}">>,
       [is |-> "object", pairs |-> {<<<<"m", "a", "r", "k", "e", "t", "L", "i", "m", "i", "t">>, JsNull>>}]>>,
     <<<<"{", "\"", "m", "a", "r", "k", "e", "t", "L", "i", "m", "i", "t", "\"", ":", "1", "0", "0", "}">>,
       [is |-> "object", pairs |-> {<<<<"m", "a", "r", "k", "e", "t", "L", "i", "m", "i", "t">>, JsNumber(100)>>}]>>,
     <<<<"{", "\"", "d", "e", "f", "a", "u", "l", "t", "V", "i", "e", "w", "\"", ":", "\"", "w", "a", "t", "c", "h", "l", "i", "s", "t", "\"", ",", "\"", "h", "i", "d", "e", "T", "o", "p", "3", "\"", ":", "t", "r", "u", "e", "}">>,
       [is |-> "object", pairs |-> {<<<<"d", "e", "f", "a", "u", "l", "t", "V", "i", "e", "w">>, String(<<"w", "a", "t", "c", "h", "l", "i", "s", "t">>)>>, <<<<"h", "i", "d", "e", "T", "o", "p", "3">>, JsBoolean(TRUE)>>}]>>}

StoredPreferences ==
    (CHOOSE row \in PreferencesMeaning : row[1] = localStorage[PreferencesKey].chars)[2]

NothingStored == ~hasWindow \/ localStorage[PreferencesKey] = JsNull

LoadedPreferences == returned # NoValue /\ returned.call = "loadPreferences"

\* the parts of C14 on what is stored: every key of DEFAULTS is present,
\* stored values override the defaults, and the result is DEFAULTS when
\* nothing is stored, when the text is no JSON and after resetPreferences
LoadsDefaultsAndStored ==
    LoadedPreferences =>
        /\ returned.value.kind = "object"
        /\ Keys(Pairs(DEFAULTS.members)) \subseteq Keys(Pairs(returned.value.members))
        /\ (~NothingStored /\ StoredPreferences.is = "object") =>
                Pairs(returned.value.members)
                    = Overlay(Pairs(DEFAULTS.members), StoredPreferences.pairs)
        /\ (NothingStored \/ StoredPreferences.is = "invalid") =>
                returned.value = DEFAULTS
        /\ (lastPrefs # NoValue /\ lastPrefs.call = "resetPreferences") =>
                returned.value = DEFAULTS

WatchlistSurvivesLoad ==
    (mounted /\ ~toggled /\ writes[1] # JsNull) =>
        \A i \in 2..Len(writes) : writes[i] = writes[1]

AgreementSentence ==
    "Short-term and 7-day signals point in the same direction (better signal quality)."

\* C16: the alignment of computeConfidence agrees with the alignment driver:
\* the 5th driver is the agreement sentence iff computeConfidence evaluates
\* aligned as true on that breakdown (raw c24 and c7, zero on either side
\* counts as aligned), so High confidence implies the agreement sentence.
AlignmentAgrees ==
    \A i \in 1..Len(enriched) :
        LET b == enriched[i].breakdown
            c == enriched[i].coin
            agree == b.drivers[5].text = AgreementSentence
        IN  /\ agree <=> aligned(b.inputs.c24, b.inputs.c7)
            /\ agree <=> RefAligned(P24(c), P7(c))
            /\ enriched[i].confidence.label = "High" => agree

\* C16 witness: an asset with c24 = 0 and a falling 7-day trend has been
\* scored and got the agreement sentence.
AlignmentAgreesWitness ==
    \E i \in 1..Len(enriched) :
        /\ P24(enriched[i].coin) = 0
        /\ P7(enriched[i].coin) = -5
        /\ enriched[i].breakdown.drivers[5].text = AgreementSentence
        /\ aligned(enriched[i].breakdown.inputs.c24, enriched[i].breakdown.inputs.c7)

AlignedHighWitness ==
    \E i \in 1..Len(enriched) :
        /\ enriched[i].confidence.label = "High"
        /\ enriched[i].breakdown.drivers[5].text = AgreementSentence

\* the suggestions in their fixed order, each iff its own guard holds
ExpectedSuggestions(c) ==
    (IF Guard7(c) THEN <<"A stronger 7-day trend would raise momentum.">> ELSE <<>>)
    \o (IF Guard24(c)
        THEN <<"A clean positive 24h move would improve the short-term signal.">> ELSE <<>>)
    \o (IF GuardChop(c)
        THEN <<"Less choppiness between short-term and 7-day moves would raise confidence.">>
        ELSE <<>>)
    \o (IF Guard30(c)
        THEN <<"A stabilizing 30-day trend would reduce longer-term drag.">> ELSE <<>>)

\* C17: when at least one guard holds, whatWouldChange is exactly the
\* subsequence of the four suggestions in the order 7-day, 24h, choppiness,
\* 30-day, each included iff its own guard holds on the raw values.
SuggestionsIndependent ==
    \A i \in 1..Len(enriched) :
        AnyGuard(enriched[i].coin) =>
            enriched[i].breakdown.whatWouldChange = ExpectedSuggestions(enriched[i].coin)

\* C17 witness: the 7-day and choppiness guards fail while the 24h and
\* 30-day guards hold, and exactly those two suggestions are listed.
SuggestionsIndependentWitness ==
    \E i \in 1..Len(enriched) :
        LET c == enriched[i].coin IN
        /\ ~Guard7(c) /\ Guard24(c) /\ ~GuardChop(c) /\ Guard30(c)
        /\ enriched[i].breakdown.whatWouldChange =
              <<"A clean positive 24h move would improve the short-term signal.",
                "A stabilizing 30-day trend would reduce longer-term drag.">>

\* C18: the 7-day driver is 'strong' iff c7 >= 5, 'weak' iff c7 <= -5, else
\* 'mild'; the 24h driver is 'positive' iff c24 >= 3, 'negative' iff
\* c24 <= -3, else 'small'; both on the raw, unclamped value.
DriverThresholds ==
    \A i \in 1..Len(enriched) :
        LET d == enriched[i].breakdown.drivers
            c == enriched[i].coin
        IN  /\ d[1].text = (IF P7(c) >= 5 THEN "Strong 7-day trend (%) is supporting momentum."
                            ELSE IF P7(c) <= -5 THEN "Weak 7-day trend (%) is dragging momentum."
                            ELSE "7-day trend is mild (%), so momentum is less decisive.")
            /\ d[2].text = (IF P24(c) >= 3
                            THEN "Recent 24h move is positive (%) and adds short-term strength."
                            ELSE IF P24(c) <= -3
                            THEN "Recent 24h move is negative (%) and adds short-term pressure."
                            ELSE "24h move is small (%), so the short-term signal is muted.")

\* C18 witness: c7 exactly 5 gives 'strong' and c24 exactly -3 gives
\* 'negative'.
DriverThresholdsWitness ==
    \E i \in 1..Len(enriched) :
        /\ P7(enriched[i].coin) = 5
        /\ P24(enriched[i].coin) = -3
        /\ enriched[i].breakdown.drivers[1].text = "Strong 7-day trend (%) is supporting momentum."
        /\ enriched[i].breakdown.drivers[2].text
              = "Recent 24h move is negative (%) and adds short-term pressure."

\* C18 witness on unclamped values: c7 far above the clamp of 30.
DriverUnclampedWitness ==
    \E i \in 1..Len(enriched) :
        /\ P7(enriched[i].coin) = Huge
        /\ enriched[i].breakdown.drivers[1].text = "Strong 7-day trend (%) is supporting momentum."

\* C19: the 4th driver is the 'choppy' sentence iff the raw volatility proxy
\* |c24 - c7| is at least 15, and the 'fairly consistent' sentence otherwise.
ChoppyThreshold ==
    \A i \in 1..Len(enriched) :
        enriched[i].breakdown.drivers[4].text =
            (IF Proxy(enriched[i].coin) >= 15
             THEN "Signals are choppy (24h vs 7d differs by ~% pts), which reduces confidence."
             ELSE "Signals are fairly consistent (24h vs 7d gap ~% pts).")

\* C19 witness: a proxy of exactly 15 is reported as choppy.
ChoppyThresholdWitness ==
    \E i \in 1..Len(enriched) :
        /\ Proxy(enriched[i].coin) = 15
        /\ enriched[i].breakdown.drivers[4].text
              = "Signals are choppy (24h vs 7d differs by ~% pts), which reduces confidence."

\* proxies at and beyond the clamp of 40
SaturatedProxies == {40, 41, 100, 2 * Huge + 1}

\* C20: inputs.volatilityProxy is |c24 - c7| of the raw inputs and is not
\* clamped; the drivers and whatWouldChange use that raw proxy; the penalty
\* uses the proxy clamped to [0, 40], so 0 <= penalty <= 10 and the score is
\* the same for every proxy >= 40 with the same n24, n7, n30.
TwoStageVolatility ==
    \A i \in 1..Len(enriched) :
        LET b == enriched[i].breakdown
            c == enriched[i].coin
            v == b.inputs.volatilityProxy
        IN  /\ v = N(Proxy(c))
            /\ b.drivers[4].arg.fixed.digits = 10 * Proxy(c)
            /\ b.drivers[4].arg.fixed.places = 1
            /\ (\E k \in 1..Len(b.whatWouldChange) : b.whatWouldChange[k] =
                    "Less choppiness between short-term and 7-day moves would raise confidence.")
                 <=> Proxy(c) > 12
            /\ FLe(Zero, penalty(v)) /\ FLe(penalty(v), N(10))
            /\ Proxy(c) >= 40 =>
                  \A u \in SaturatedProxies :
                      b.score = ScoreOf(b.inputs.c24, b.inputs.c7, b.inputs.c30, N(u))

\* C20 witness: c24 = 20 and c7 = -30 are inside their clamps, the proxy 50
\* is reported unclamped and the penalty is the full 10.
TwoStageVolatilityWitness ==
    \E i \in 1..Len(enriched) :
        /\ P24(enriched[i].coin) = 20
        /\ P7(enriched[i].coin) = -30
        /\ enriched[i].breakdown.inputs.volatilityProxy = N(50)
        /\ enriched[i].breakdown.drivers[4].arg.fixed.digits = 500
        /\ penalty(enriched[i].breakdown.inputs.volatilityProxy) = N(10)

ChoppySentence ==
    "Signals are choppy (24h vs 7d differs by ~% pts), which reduces confidence."

\* C21: whenever computeMomentumBreakdown emits the 'Signals are choppy ...
\* which reduces confidence' driver for an asset, computeConfidence on that
\* breakdown does not return High.
ChoppyNeverHigh ==
    \A i \in 1..Len(enriched) :
        (\E k \in 1..Len(enriched[i].breakdown.drivers) :
            enriched[i].breakdown.drivers[k].text = ChoppySentence)
        => /\ enriched[i].confidence.label # "High"
           /\ computeConfidence(enriched[i].breakdown).label # "High"

\* C21 witness: an asset with score 70 or more and aligned signals that is
\* flagged as choppy has been scored, and its confidence is Medium.
ChoppyNeverHighWitness ==
    \E i \in 1..Len(enriched) :
        /\ enriched[i].breakdown.drivers[4].text = ChoppySentence
        /\ enriched[i].breakdown.score >= 70
        /\ RefAligned(P24(enriched[i].coin), P7(enriched[i].coin))
        /\ enriched[i].confidence.label = "Medium"


\* the unclamped `scaled` of the i-th enriched row, from the inputs the
\* breakdown reports
ScaledOfRow(i) ==
    LET x == enriched[i].breakdown.inputs
    IN  scaledOf(x.c24, x.c7, x.c30, x.volatilityProxy)

ScaledLow == FromDecimal(74, 10)
ScaledHigh == FromDecimal(826, 10)

ClampNeverActsHighWitness ==
    \E i \in 1..Len(enriched) :
        /\ ScaledOfRow(i) = ScaledHigh
        /\ enriched[i].breakdown.score = 83


\* the step is a tick that has processed symbol s
Processed(s) == ticks' = ticks + 1 /\ history'[s] # history[s]

\* the entry of a symbol meets the alert conditions
MeetsEntry(e) == MeetsConditions(e.m1, e.m5, e.m15, e.score)

\* C22: once 'Enable Sound Alerts' has been clicked, every tick that finds a
\* symbol meeting the alert conditions marks it isAlert, and plays the sound
\* if the symbol was not in alert at its previous tick, whether the click
\* came before or after the interval was started.
AlertsOnceEnabled ==
    [][\A s \in Tickers :
        (audioReady /\ alertsEnabled /\ Processed(s) /\ MeetsEntry(scores'[s]))
        => /\ scores'[s].isAlert
           /\ (scores[s] = Undefined \/ ~scores[s].isAlert) => plays'[s] = plays[s] + 1]_vars

\* C23: the sound is played for a symbol only on a tick that processes it
\* with isAlert true while its flag is not set, and then once; a tick that
\* processes it with isAlert false clears the flag; and a play that is not
\* the first for the symbol comes after a tick that processed the symbol
\* with isAlert false since the play before.
AlertLatch ==
    [][\A s \in Tickers :
        /\ plays'[s] # plays[s]
            => /\ plays'[s] = plays[s] + 1
               /\ Processed(s)
               /\ scores'[s].isAlert
               /\ ~alerted[s]
               /\ plays[s] > 0 => calm[s]
        /\ (Processed(s) /\ ~scores'[s].isAlert) => ~alerted'[s]
        /\ (Processed(s) /\ scores'[s].isAlert) => alerted'[s]]_vars

\* a symbol has sounded twice: in alert, out of alert, in alert again
AlertLatchWitness ==
    \E s \in Tickers :
        /\ plays[s] = 2
        /\ alerted[s]
        /\ scores[s] # Undefined
        /\ scores[s].isAlert

\* a symbol stays in alert on two ticks in a row and has sounded once
AlertHeldWitness ==
    \E s \in Tickers :
        /\ plays[s] = 1
        /\ alerted[s]
        /\ Len(history[s]) = 3
        /\ FLt(Zero, history[s][2])
        /\ FLt(Zero, history[s][3])


\* the dashboard state that a load call can change
LoadState == <<pageCoins, loadStatus, fetchedAt, isRefreshing, inFlightRef, pending>>

\* C24: at most one request to /api/markets is outstanding at any time; a
\* load call made while one is outstanding starts no fetch and changes no
\* state; a load that runs to its end, by success or by failure, leaves the
\* in-flight flag and isRefreshing false; and the flag, once set, is cleared
\* again, so that a later load can start.
SingleFlight ==
    /\ [](Len(pending) <= 1)
    /\ [][(calls' # calls /\ pending # <<>>) => UNCHANGED LoadState]_vars
    /\ [][loadsDone' # loadsDone => (~inFlightRef' /\ ~isRefreshing')]_vars
    /\ (inFlightRef ~> ~inFlightRef)

\* a call was turned away while a request was outstanding, and the load that
\* was outstanding has since run to its end
SingleFlightWitness ==
    /\ calls = loadsDone + 2
    /\ loadsDone >= 1
    /\ pending = <<>>
    /\ ~inFlightRef
    /\ ~isRefreshing

\* C25: in app/page.js a background refresh that fails leaves the coin list,
\* fetchedAt and the error message shown before it started as they were, and
\* an initial load that fails sets the error message 'Could not load data.
\* Try refreshing in a moment.' and loading to false.
FailedRefreshKeepsState ==
    [][(loadVersion = "page.js" /\ loadsDone' # loadsDone /\ lastLoad'.failed)
        => IF lastLoad'.showSpinner
           THEN loadStatus' = [loading |-> FALSE, error |-> CouldNotLoad]
           ELSE /\ pageCoins' = lastLoad'.before.coins
                /\ fetchedAt' = lastLoad'.before.fetchedAt
                /\ loadStatus'.error = lastLoad'.before.error]_vars

=============================================================================
